---------------------------- MODULE Spec2Model ----------------------------
(***************************************************************************)
(* A model of royal-road-cli: the reader's event loop                      *)
(* (internal/ui/reader.go, ReaderModel.Update), the reading history kept  *)
(* in the configuration (internal/config/config.go) and the pure helpers  *)
(* they use.  Go's 0-based indices are kept (chapterIndex, currentPage);   *)
(* a Go slice s is a TLA+ sequence whose element s[i] is Seq[i+1].         *)
(* The "?" key is left out: it flips showHelp, which only View reads.     *)
(***************************************************************************)
EXTENDS Integers, Sequences, FiniteSets, Bags, TLC

VARIABLES
    m,      \* the ReaderModel (reader.go:18-41), a record of its fields
    cfg,    \* the Config the reader holds (config.go:9-15)
    pc,     \* where the program is: "new", "running", "quit", "menu"
    env,    \* what the environment still allows: commands in flight, failed fetches, reloads
    cmds,   \* tea.Cmd's issued and messages not yet handled by Update (a bag)
    ev      \* the event handled by the last step (history variable)

vars == <<m, cfg, pc, cmds, env, ev>>

(***************************************************************************)
(* float64.  A value is sign * 0.M * 2^e, or zero; the mantissa M is held *)
(* as five limbs of 11 binary digits, most significant first, of which    *)
(* the first 53 digits are significant and the leading digit is 1.        *)
(* Division and multiplication round to nearest, ties to even, as IEEE    *)
(* 754 binary64 does; int(f) truncates toward zero.                       *)
(***************************************************************************)
MantBits == 53

LimbBits == 11

Limbs == 5

RECURSIVE Pow2(_)
Pow2(n) == IF n <= 0 THEN 1 ELSE 2 * Pow2(n - 1)

Base == Pow2(LimbBits)

\* The digits of the limbs beyond the mantissa, and one unit in the last place.
SpareBits == Limbs * LimbBits - MantBits

Ulp == Pow2(SpareBits)

Abs(x) == IF x < 0 THEN 0 - x ELSE x

F64Zero == [s |-> 0, m |-> [j \in 1..Limbs |-> 0], e |-> 0]

F64One == [s |-> 0, m |-> [j \in 1..Limbs |-> IF j = 1 THEN Base \div 2 ELSE 0], e |-> 1]

F64IsZero(f) == f.m[1] = 0

\* f > 0
F64Positive(f) == ~F64IsZero(f) /\ f.s = 0

\* f > 1.0
F64GtOne(f) == F64Positive(f) /\ (f.e > 1 \/ (f.e = 1 /\ f.m # F64One.m))

\* 0 <= f <= 1.0
F64InUnit(f) == F64IsZero(f) \/ (f.s = 0 /\ ~F64GtOne(f))

\* limbs + inc at limb j, the carry running toward limb 1.
RECURSIVE AddAt(_, _, _)
AddAt(limbs, j, inc) ==
    IF j = 0 THEN [m |-> limbs, carry |-> inc > 0]
    ELSE AddAt([limbs EXCEPT ![j] = (limbs[j] + inc) % Base], j - 1, (limbs[j] + inc) \div Base)

\* The exact magnitude 0.raw... * 2^e rounded to 53 digits; sticky says that
\* nonzero digits follow the limbs of raw.
F64Round(sign, raw, e, sticky) ==
    LET last  == raw[Limbs]
        guard == (last \div (Ulp \div 2)) % 2
        rest  == sticky \/ last % (Ulp \div 2) # 0
        lsb   == (last \div Ulp) % 2
        up    == guard = 1 /\ (rest \/ lsb = 1)
        kept  == [raw EXCEPT ![Limbs] = last - (last % Ulp)]
        inc   == AddAt(kept, Limbs, Ulp)
    IN  IF ~up THEN [s |-> sign, m |-> kept, e |-> e]
        ELSE IF inc.carry THEN [s |-> sign, m |-> F64One.m, e |-> e + 1]
        ELSE [s |-> sign, m |-> inc.m, e |-> e]

\* Long division of r by d (0 <= r < d < 2^20): the remainder after j limbs.
RECURSIVE DivRem(_, _, _)
DivRem(r, d, j) == IF j = 0 THEN r ELSE (DivRem(r, d, j - 1) * Base) % d

\* Limb j of r/d.
DivLimb(r, d, j) == (DivRem(r, d, j - 1) * Base) \div d

\* The least k >= 0 with a * 2^k >= b  (a > 0).
RECURSIVE ShiftUntil(_, _)
ShiftUntil(a, b) == IF a >= b THEN 0 ELSE 1 + ShiftUntil(2 * a, b)

\* float64(p) / float64(q) for integers p and q > 0.
F64Div(p, q) ==
    IF p = 0 THEN F64Zero
    ELSE LET a    == Abs(p)
             sign == IF p < 0 THEN 1 ELSE 0
             \* a/q = (num/den) * 2^e with 1/2 <= num/den < 1
             up   == IF a < q THEN ShiftUntil(2 * a, q) ELSE 0
             down == IF a >= q THEN ShiftUntil(2 * q, a + 1) + 1 ELSE 0
             num  == a * Pow2(up)
             den  == q * Pow2(down)
         IN  F64Round(sign, [j \in 1..Limbs |-> DivLimb(num, den, j)], down - up,
                      DivRem(num, den, Limbs) # 0)

\* The number of binary digits of n >= 0 (0 for 0).
RECURSIVE BitLen(_)
BitLen(n) == IF n = 0 THEN 0 ELSE 1 + BitLen(n \div 2)

\* The carry out of limb j when the limbs are multiplied by t (0 < t < 2^19).
RECURSIVE MulCarry(_, _, _)
MulCarry(limbs, t, j) ==
    IF j > Limbs THEN 0
    ELSE (t * limbs[j] + MulCarry(limbs, t, j + 1)) \div Base

\* Limb j of the product; limb 0 is the carry out of limb 1.
MulLimb(limbs, t, j) ==
    IF j = 0 THEN MulCarry(limbs, t, 1)
    ELSE (t * limbs[j] + MulCarry(limbs, t, j + 1)) % Base

\* The exact product t * |f| for t >= 1 and f # 0, as [m, e, sticky]:
\* 0.m... * 2^e, the leading digit brought back to the top of limb 1.
ExactMul(t, f) ==
    LET c == BitLen(MulLimb(f.m, t, 0))
    IN  [m      |-> [j \in 1..Limbs |->
                       (MulLimb(f.m, t, j - 1) % Pow2(c)) * Pow2(LimbBits - c)
                       + (MulLimb(f.m, t, j) \div Pow2(c))],
         e      |-> f.e + c,
         sticky |-> MulLimb(f.m, t, Limbs) % Pow2(c) # 0]

\* float64(t) * f for an integer t >= 0.
F64MulInt(t, f) ==
    IF t = 0 \/ F64IsZero(f) THEN F64Zero
    ELSE LET x == ExactMul(t, f) IN F64Round(f.s, x.m, x.e, x.sticky)

\* The integer the first e binary digits of the limbs spell (0 < e <= 22).
TopBits(limbs, e) == (limbs[1] * Base + limbs[2]) \div Pow2(2 * LimbBits - e)

\* int(f): truncation toward zero (|f| < 2^22).
F64ToInt(f) ==
    IF F64IsZero(f) \/ f.e <= 0 THEN 0
    ELSE IF f.s = 1 THEN 0 - TopBits(f.m, f.e) ELSE TopBits(f.m, f.e)

\* floor of the real number t * f, for t >= 0 and f >= 0.
RealFloorMul(t, f) ==
    IF t = 0 \/ F64IsZero(f) THEN 0
    ELSE LET x == ExactMul(t, f)
         IN  IF x.e <= 0 THEN 0 ELSE TopBits(x.m, x.e)

(***************************************************************************)
(* config.go: the reading history.                                         *)
(***************************************************************************)

Min(a, b) == IF a < b THEN a ELSE b

Max(a, b) == IF a > b THEN a ELSE b

\* Positions (1-based) of the entries of history h with the given FictionID.
Matches(h, id) == {i \in 1..Len(h) : h[i].FictionID = id}

\* The first position the range loop of UpdateReadingProgress stops at.
FirstMatch(h, id) == CHOOSE i \in Matches(h, id) : \A j \in Matches(h, id) : i <= j

\* UpdateReadingProgress without the move to the front: the entry is replaced where it is.
UpdateInPlace(c, entry) ==
    LET h == c.ReadingHistory IN
    IF Matches(h, entry.FictionID) # {}
    THEN [c EXCEPT !.ReadingHistory = [h EXCEPT ![FirstMatch(h, entry.FictionID)] = entry],
                   !.LastFiction = entry.FictionID]
    ELSE [c EXCEPT !.ReadingHistory = <<entry>> \o h,
                   !.LastFiction = entry.FictionID]

\* UpdateReadingProgress without the search: the entry is always added at the front.
UpdateAlwaysPrepend(c, entry) ==
    [c EXCEPT !.ReadingHistory = <<entry>> \o c.ReadingHistory,
              !.LastFiction = entry.FictionID]

\* c.UpdateReadingProgress(entry), c = [ReadingHistory, LastFiction, ...].
UpdateReadingProgress(c, entry) ==
    LET h == c.ReadingHistory IN
    IF Matches(h, entry.FictionID) # {}
    THEN LET i        == FirstMatch(h, entry.FictionID)
             \* c.ReadingHistory[i] = entry
             replaced == [h EXCEPT ![i] = entry]
             \* append(c.ReadingHistory[:i], c.ReadingHistory[i+1:]...)
             without  == SubSeq(replaced, 1, i - 1) \o SubSeq(replaced, i + 1, Len(replaced))
         IN  [c EXCEPT !.ReadingHistory = IF i # 1 THEN <<entry>> \o without ELSE replaced,
                       !.LastFiction = entry.FictionID]
    ELSE [c EXCEPT !.ReadingHistory = <<entry>> \o h,
                   !.LastFiction = entry.FictionID]

\* Go's integer division truncates toward zero.
GoDiv(a, b) ==
    IF (a >= 0) = (b > 0) THEN Abs(a) \div Abs(b) ELSE 0 - (Abs(a) \div Abs(b))

\* GetReadingHistoryPage with hasNext off by one (page <= totalPages).
GetReadingHistoryPageOffByOne(c, page, pageSize) ==
    LET total == Len(c.ReadingHistory) IN
    IF total = 0
    THEN [entries |-> <<>>, totalPages |-> 0, hasNext |-> FALSE, hasPrev |-> FALSE]
    ELSE LET totalPages == GoDiv(total + pageSize - 1, pageSize)
             page1      == IF page < 1 THEN 1 ELSE page
             page2      == IF page1 > totalPages THEN totalPages ELSE page1
             start      == (page2 - 1) * pageSize
             end0       == start + pageSize
             end        == IF end0 > total THEN total ELSE end0
         IN  [entries    |-> SubSeq(c.ReadingHistory, start + 1, end),
              totalPages |-> totalPages,
              hasNext    |-> page2 <= totalPages,
              hasPrev    |-> page2 > 1]

\* c.GetReadingHistoryPage(page, pageSize) for pageSize > 0:
\* [entries, totalPages, hasNext, hasPrev].
GetReadingHistoryPage(c, page, pageSize) ==
    LET total == Len(c.ReadingHistory) IN
    IF total = 0
    THEN [entries |-> <<>>, totalPages |-> 0, hasNext |-> FALSE, hasPrev |-> FALSE]
    ELSE LET totalPages == GoDiv(total + pageSize - 1, pageSize)
             page1      == IF page < 1 THEN 1 ELSE page
             page2      == IF page1 > totalPages THEN totalPages ELSE page1
             start      == (page2 - 1) * pageSize
             end0       == start + pageSize
             end        == IF end0 > total THEN total ELSE end0
         IN  [entries    |-> SubSeq(c.ReadingHistory, start + 1, end),
              totalPages |-> totalPages,
              hasNext    |-> page2 < totalPages,
              hasPrev    |-> page2 > 1]

(***************************************************************************)
(* reader.go: text reflow.  A chapter body, after cleanHTML, is a sequence *)
(* of paragraphs (what strings.Split(text, "\n\n") yields), each a         *)
(* sequence of words (what strings.Fields yields); a word is a string.    *)
(* A text is held as the sequence of its lines (its split on "\n").        *)
(***************************************************************************)

\* The wrap that takes a word onto the line when the line is not yet full.
RECURSIVE WrapWordsOverfull(_, _, _, _, _)
WrapWordsOverfull(words, i, width, currentLine, lines) ==
    IF i > Len(words)
    THEN IF currentLine # "" THEN Append(lines, currentLine) ELSE lines
    ELSE LET word == words[i] IN
         IF Len(currentLine) + 1 <= width
         THEN WrapWordsOverfull(words, i + 1, width,
                                IF currentLine = "" THEN word ELSE currentLine \o " " \o word,
                                lines)
         ELSE WrapWordsOverfull(words, i + 1, width, word,
                                IF currentLine # "" THEN Append(lines, currentLine) ELSE lines)

\* The inner loop of wrapText over the words of one paragraph.
RECURSIVE WrapWords(_, _, _, _, _)
WrapWords(words, i, width, currentLine, lines) ==
    IF i > Len(words)
    THEN IF currentLine # "" THEN Append(lines, currentLine) ELSE lines
    ELSE LET word == words[i] IN
         IF Len(currentLine) + Len(word) + 1 <= width
         THEN WrapWords(words, i + 1, width,
                        IF currentLine = "" THEN word ELSE currentLine \o " " \o word,
                        lines)
         ELSE WrapWords(words, i + 1, width, word,
                        IF currentLine # "" THEN Append(lines, currentLine) ELSE lines)

\* strings.Join(paragraphs, "\n\n") seen as lines: a blank line between paragraphs.
RECURSIVE JoinBlank(_)
JoinBlank(ps) ==
    IF ps = <<>> THEN <<"">>
    ELSE IF Len(ps) = 1 THEN ps[1]
    ELSE ps[1] \o <<"">> \o JoinBlank(Tail(ps))

\* m.wrapText(text, width): the lines of the wrapped text.
wrapText(paragraphs, width) ==
    LET w        == IF width <= 20 THEN 40 ELSE width
        nonEmpty == SelectSeq(paragraphs, LAMBDA p : p # <<>>)
        wrapped  == [k \in 1..Len(nonEmpty) |-> WrapWords(nonEmpty[k], 1, w, "", <<>>)]
    IN  JoinBlank(wrapped)

\* An author's note as lipgloss renders it: one line (the notes here hold no line break).
NoteLine(note) == "| Author's Note: " \o note

\* m.formatChapterContent() for a loaded chapter, as lines.
formatChapterContent(chapter, termWidth) ==
    LET textWidth == Max(termWidth - 4, 40)
        body      == wrapText(chapter.Content, textWidth)
        pre       == IF chapter.PreNote # "" THEN <<NoteLine(chapter.PreNote), "">> ELSE <<>>
        post      == IF chapter.PostNote # "" THEN <<"", NoteLine(chapter.PostNote)>> ELSE <<>>
    IN  pre \o body \o post


(***************************************************************************)
(* The environment: the site the api.Client fetches from, the terminal,   *)
(* and the configuration file config.Load() finds.                        *)
(***************************************************************************)

\* The longest chapter list the site returns for the fiction.
MaxChapters == 2

\* tea.Cmd's running or messages waiting, at most.
MaxOutstanding == 1

\* Fetches the site fails, at most.
MaxFailures == 1

\* Reloads (r) the user asks for, at most.
MaxReloads == 1

\* A nil pointer, a nil error.
Nil == [nil |-> TRUE]

Digit == <<"1", "2", "3", "4", "5", "6", "7", "8", "9">>

RECURSIVE Word(_)
Word(n) == IF n = 0 THEN "" ELSE "a" \o Word(n - 1)

Words(k, n) == [i \in 1..k |-> Word(n)]

\* What GetFiction returns when the site lists n chapters.
ServerFiction(n) ==
    [Title    |-> "Fiction",
     Author   |-> [Name |-> "Author"],
     Chapters |-> [i \in 1..n |-> [ID |-> 100 + i, Title |-> "Chapter " \o Digit[i]]]]

(***************************************************************************)
(* client.go: the siblings of a chapter.  A text of the site is a         *)
(* sequence of characters.                                                *)
(***************************************************************************)

Digits == <<"0", "1", "2", "3", "4", "5", "6", "7", "8", "9">>

DecimalDigits == {"0", "1", "2", "3", "4", "5", "6", "7", "8", "9"}

DecimalValue(c) ==
    CASE c = "0" -> 0 [] c = "1" -> 1 [] c = "2" -> 2 [] c = "3" -> 3 [] c = "4" -> 4
      [] c = "5" -> 5 [] c = "6" -> 6 [] c = "7" -> 7 [] c = "8" -> 8 [] c = "9" -> 9

AllDigits(str) == str # <<>> /\ \A i \in 1..Len(str) : str[i] \in DecimalDigits

\* strconv.Atoi of a run of digits short enough for an int.
RECURSIVE AtoiDigits(_)
AtoiDigits(digits) ==
    IF digits = <<>> THEN 0
    ELSE 10 * AtoiDigits(SubSeq(digits, 1, Len(digits) - 1)) + DecimalValue(digits[Len(digits)])

\* strconv.Atoi of a text: digits, with or without a sign before them.
AtoiSigned(str) ==
    IF AllDigits(str) THEN [ok |-> TRUE, value |-> AtoiDigits(str)]
    ELSE IF str # <<>> /\ str[1] \in {"+", "-"} /\ AllDigits(Tail(str))
    THEN [ok |-> TRUE, value |-> IF str[1] = "-" THEN 0 - AtoiDigits(Tail(str))
                                 ELSE AtoiDigits(Tail(str))]
    ELSE [ok |-> FALSE, value |-> 0]

\* What Attr(name) returns.
Attr(content) == [content |-> content, exists |-> TRUE]
NoAttr == [content |-> <<>>, exists |-> FALSE]

\* strings.Split(url, "/")
RECURSIVE SplitSlash(_)
SplitSlash(url) ==
    IF \A i \in 1..Len(url) : url[i] # "/" THEN <<url>>
    ELSE LET i == CHOOSE k \in 1..Len(url) : url[k] = "/" /\ \A j \in 1..(k - 1) : url[j] # "/"
         IN  <<SubSeq(url, 1, i - 1)>> \o SplitSlash(SubSeq(url, i + 1, Len(url)))

\* extractChapterID with the fifth of the parts taken for the id.
extractChapterIDFifth(url) ==
    LET parts == SplitSlash(url)
    IN  IF Len(parts) >= 5 /\ AtoiSigned(parts[5]).ok THEN AtoiSigned(parts[5]).value ELSE 0 - 1

\* c.extractChapterID(url)
extractChapterID(url) ==
    LET parts == SplitSlash(url)
    IN  IF Len(parts) >= 6 /\ AtoiSigned(parts[6]).ok THEN AtoiSigned(parts[6]).value ELSE 0 - 1

\* An icon of the chapter's page and the href of the element around it; a page
\* without the icon.
Icon(href) == [icon |-> TRUE, href |-> href]
NoIcon == [icon |-> FALSE, href |-> NoAttr]

\* doc.Find("i.fa-chevron-double-...").Parent().Attr("href") and what parseChapter
\* makes of it
Sibling(anchor) ==
    LET href == IF anchor.icon THEN anchor.href ELSE NoAttr
    IN  IF href.exists THEN extractChapterID(href.content) ELSE 0 - 1

\* strconv.Itoa of a chapter id of three digits
Itoa(id) == <<Digits[(id \div 100) + 1], Digits[((id \div 10) % 10) + 1], Digits[(id % 10) + 1]>>

\* The href of the site's link to a chapter.
ChapterHref(chapterID) ==
    <<"/", "f", "/", "1", "/", "t", "/", "c", "/">> \o Itoa(chapterID) \o <<"/", "n">>

\* The links of a chapter's page to its siblings: the first chapter has no previous
\* one, the last no next one.
ServerSiblings(chapterID) ==
    [next |-> IF chapterID < 100 + MaxChapters
              THEN Icon(Attr(ChapterHref(chapterID + 1))) ELSE NoIcon,
     prev |-> IF chapterID > 101
              THEN Icon(Attr(ChapterHref(chapterID - 1))) ELSE NoIcon]

\* What GetChapter(chapterID) returns: a long chapter of long words, a chapter of
\* two paragraphs with a post-note, a chapter with an empty body and a pre-note.
GetChapter(chapterID) ==
    LET Next     == Sibling(ServerSiblings(chapterID).next)
        Previous == Sibling(ServerSiblings(chapterID).prev)
    IN  CASE chapterID % 3 = 2 ->
               [Content |-> <<Words(21, 30)>>, PreNote |-> "", PostNote |-> "",
                Next |-> Next, Previous |-> Previous]
          [] chapterID % 3 = 0 ->
               [Content |-> <<Words(20, 19), Words(3, 19)>>, PreNote |-> "", PostNote |-> "bye",
                Next |-> Next, Previous |-> Previous]
          [] OTHER ->
               [Content |-> <<>>, PreNote |-> "hello", PostNote |-> "",
                Next |-> Next, Previous |-> Previous]

\* GetChapter, tabulated over the chapters the site lists.
ServedChapters == [chapterID \in 101..(100 + MaxChapters) |-> GetChapter(chapterID)]

ServerChapter(chapterID) == ServedChapters[chapterID]

\* The lengths of the chapter list the site returns: none, or the longest two.
ChapterCounts == {0} \cup ((MaxChapters - 1)..MaxChapters)

\* Terminal sizes <<width, height>>: one below both floors, one above them.
Sizes == {<<30, 8>>, <<65, 20>>}

\* The fiction ids the reader is opened with: strconv.Atoi accepts the first only.
FictionIDs == {"1", "x"}

Atoi(str) ==
    CASE str = "0" -> [ok |-> TRUE, value |-> 0]
      [] str = "1" -> [ok |-> TRUE, value |-> 1]
      [] str = "2" -> [ok |-> TRUE, value |-> 2]
      [] OTHER -> [ok |-> FALSE, value |-> 0]

\* Start chapters a caller passes to SetStartChapter.
StartChapters == {0, MaxChapters - 1}

HistoryEntry(id, chapter, progress) ==
    [FictionID       |-> id,
     FictionTitle    |-> "Fiction",
     Author          |-> "Author",
     CurrentChapter  |-> chapter,
     ChapterTitle    |-> "Chapter " \o Digit[chapter + 1],
     ChapterProgress |-> progress,
     TotalChapters   |-> MaxChapters]

\* Histories an earlier session left in the configuration file.
InitialHistories(id) ==
    { <<>>,
      <<HistoryEntry("2", 0, F64Zero), HistoryEntry(id, 1, F64Div(1, 2))>> }

(***************************************************************************)
(* reader.go: the ReaderModel.                                             *)
(***************************************************************************)

\* NewReaderModel(fictionID) on a terminal of the given size.
NewReaderModel(fictionID, size) ==
    [fictionID            |-> fictionID,
     fiction              |-> Nil,
     currentChapter       |-> Nil,
     chapterIndex         |-> 0,
     startChapter         |-> 0,
     loading              |-> TRUE,
     err                  |-> Nil,
     showHelp             |-> FALSE,
     showTOC              |-> FALSE,
     ready                |-> TRUE,
     content              |-> <<>>,
     currentPage          |-> 0,
     linesPerPage         |-> Max(size[2] - 4 - 1, 10),
     totalPages           |-> 0,
     termWidth            |-> size[1],
     termHeight           |-> size[2],
     goToLastPage         |-> FALSE,
     savedChapterProgress |-> F64Zero]

\* len(m.fiction.Chapters)
NumChapters(mm) == Len(mm.fiction.Chapters)

\* m.restoreReadingPosition(): the first history entry of this fiction decides.
restoreReadingPosition(mm, c) ==
    IF Matches(c.ReadingHistory, mm.fictionID) = {} THEN mm
    ELSE LET entry == c.ReadingHistory[FirstMatch(c.ReadingHistory, mm.fictionID)]
             start == IF mm.startChapter = 0 THEN entry.CurrentChapter ELSE mm.startChapter
         IN  [mm EXCEPT !.startChapter = start,
                        !.savedChapterProgress =
                            IF start = entry.CurrentChapter /\ F64Positive(entry.ChapterProgress)
                            THEN entry.ChapterProgress ELSE @]

\* formatChapterContent, tabulated over the chapters the site serves and the widths
\* the terminal takes.
Formatted ==
    [chapter \in {ServerChapter(100 + i) : i \in 1..MaxChapters}, termWidth \in {size[1] : size \in Sizes}
        |-> formatChapterContent(chapter, termWidth)]

\* updateContent without the last step, which brings currentPage back into the pages.
updateContentNoClamp(mm) ==
    IF mm.currentChapter = Nil THEN mm
    ELSE LET content    == Formatted[mm.currentChapter, mm.termWidth]
             totalPages == IF Len(content) = 0 THEN 1
                           ELSE GoDiv(Len(content) + mm.linesPerPage - 1, mm.linesPerPage)
         IN  [mm EXCEPT !.content = content, !.totalPages = totalPages]

\* m.updateContent()
updateContent(mm) ==
    IF mm.currentChapter = Nil THEN mm
    ELSE LET content    == Formatted[mm.currentChapter, mm.termWidth]
             totalPages == IF Len(content) = 0 THEN 1
                           ELSE GoDiv(Len(content) + mm.linesPerPage - 1, mm.linesPerPage)
         IN  [mm EXCEPT !.content = content,
                        !.totalPages = totalPages,
                        !.currentPage = IF @ >= totalPages THEN Max(0, totalPages - 1) ELSE @]

\* The fraction saveReadingProgress stores.
ChapterProgress(currentPage, totalPages) ==
    IF totalPages > 0
    THEN LET chapterProgress == F64Div(currentPage, totalPages)
         IN  IF F64GtOne(chapterProgress) THEN F64One ELSE chapterProgress
    ELSE F64Zero

\* The ReadingEntry saveReadingProgress builds (LastRead, the clock's reading, left out).
ProgressEntry(mm) ==
    [FictionID       |-> mm.fictionID,
     FictionTitle    |-> mm.fiction.Title,
     Author          |-> mm.fiction.Author.Name,
     CurrentChapter  |-> mm.chapterIndex,
     ChapterTitle    |-> IF mm.chapterIndex < NumChapters(mm)
                         THEN mm.fiction.Chapters[mm.chapterIndex + 1].Title ELSE "",
     ChapterProgress |-> ChapterProgress(mm.currentPage, mm.totalPages),
     TotalChapters   |-> NumChapters(mm)]

\* The save that waits for a chapter to be shown.
saveReadingProgressOnceShown(mm, c) ==
    IF mm.fiction = Nil \/ mm.currentChapter = Nil THEN c
    ELSE UpdateReadingProgress(c, ProgressEntry(mm))

\* m.saveReadingProgress(): the configuration afterwards.
saveReadingProgress(mm, c) ==
    IF mm.fiction = Nil THEN c ELSE UpdateReadingProgress(c, ProgressEntry(mm))

\* The restore with the fraction truncated before it is multiplied.
RestorePageTruncFirst(totalPages, savedChapterProgress) ==
    LET targetPage == totalPages * F64ToInt(savedChapterProgress)
    IN  IF targetPage >= totalPages THEN totalPages - 1 ELSE targetPage

\* The page the restore branch of the chapter-loaded handler lands on.
RestorePage(totalPages, savedChapterProgress) ==
    LET targetPage == F64ToInt(F64MulInt(totalPages, savedChapterProgress))
    IN  IF targetPage >= totalPages THEN totalPages - 1 ELSE targetPage


(***************************************************************************)
(* Commands and messages.  A handler's result is [m, cmd]: the model       *)
(* afterwards and the tea.Cmd's it returns (a sequence of none or one).   *)
(* origin names the handler that issued a command; the program does not   *)
(* hold it.                                                               *)
(***************************************************************************)

LoadFictionCmd(origin) ==
    [type |-> "cmd", call |-> "loadFiction", index |-> 0, origin |-> origin]

LoadChapterCmd(index, origin) ==
    [type |-> "cmd", call |-> "loadChapter", index |-> index, origin |-> origin]

FictionLoadedMsg(fiction, cmd) ==
    [type |-> "fictionLoadedMsg", fiction |-> fiction, origin |-> cmd.origin]

ChapterLoadedMsg(chapter, index, cmd) ==
    [type |-> "chapterLoadedMsg", chapter |-> chapter, index |-> index, origin |-> cmd.origin]

ErrorMsg(text, cmd) ==
    [type |-> "errorMsg", err |-> [error |-> text], call |-> cmd.call,
     index |-> cmd.index, origin |-> cmd.origin]

Result(mm, cmd) == [m |-> mm, cmd |-> cmd]

\* The resize handler without the call of updateContent.
OnWindowSizeNoReflow(mm, size) ==
    Result([mm EXCEPT !.termWidth = size[1],
                      !.termHeight = size[2],
                      !.linesPerPage = Max(size[2] - 4 - 1, 10),
                      !.ready = TRUE], <<>>)

\* The resize that lays the chapter out again and leaves currentPage where it was.
OnWindowSizeNoClamp(mm, size) ==
    LET resized == [mm EXCEPT !.termWidth = size[1],
                              !.termHeight = size[2],
                              !.linesPerPage = Max(size[2] - 4 - 1, 10),
                              !.ready = TRUE]
    IN  Result(IF mm.currentChapter # Nil THEN updateContentNoClamp(resized) ELSE resized, <<>>)

\* case tea.WindowSizeMsg
OnWindowSize(mm, size) ==
    LET resized == [mm EXCEPT !.termWidth = size[1],
                              !.termHeight = size[2],
                              !.linesPerPage = Max(size[2] - 4 - 1, 10),
                              !.ready = TRUE]
    IN  Result(IF mm.currentChapter # Nil THEN updateContent(resized) ELSE resized, <<>>)

\* case "t"
OnTOC(mm) == Result(IF mm.fiction # Nil THEN [mm EXCEPT !.showTOC = ~@] ELSE mm, <<>>)

\* case "n", "b"
OnNextChapter(mm) ==
    IF mm.fiction # Nil /\ mm.chapterIndex < NumChapters(mm) - 1
    THEN Result([mm EXCEPT !.chapterIndex = @ + 1, !.loading = TRUE],
                <<LoadChapterCmd(mm.chapterIndex + 1, "n")>>)
    ELSE Result(mm, <<>>)

\* case "p"
OnPrevChapter(mm) ==
    IF mm.fiction # Nil /\ mm.chapterIndex > 0
    THEN Result([mm EXCEPT !.chapterIndex = @ - 1, !.loading = TRUE, !.goToLastPage = TRUE],
                <<LoadChapterCmd(mm.chapterIndex - 1, "p")>>)
    ELSE Result(mm, <<>>)

\* The next-page handler without the test for a next chapter.
OnNextPageNoEnd(mm) ==
    IF mm.currentPage < mm.totalPages - 1
    THEN Result([mm EXCEPT !.currentPage = @ + 1], <<>>)
    ELSE Result([mm EXCEPT !.chapterIndex = @ + 1, !.loading = TRUE],
                <<LoadChapterCmd(mm.chapterIndex + 1, "next page")>>)

\* case " ", "f", "down", "j", "right", "l"
OnNextPage(mm) ==
    IF mm.currentPage < mm.totalPages - 1
    THEN Result([mm EXCEPT !.currentPage = @ + 1], <<>>)
    ELSE IF mm.fiction # Nil /\ mm.chapterIndex < NumChapters(mm) - 1
    THEN Result([mm EXCEPT !.chapterIndex = @ + 1, !.loading = TRUE],
                <<LoadChapterCmd(mm.chapterIndex + 1, "next page")>>)
    ELSE Result(mm, <<>>)

\* The previous-page handler that asks for the previous chapter without goToLastPage.
OnPrevPageNoLastPage(mm) ==
    IF mm.currentPage > 0
    THEN Result([mm EXCEPT !.currentPage = @ - 1], <<>>)
    ELSE IF mm.fiction # Nil /\ mm.chapterIndex > 0
    THEN Result([mm EXCEPT !.chapterIndex = @ - 1, !.loading = TRUE],
                <<LoadChapterCmd(mm.chapterIndex - 1, "prev page")>>)
    ELSE Result(mm, <<>>)

\* The previous-page handler without the test for page 0.
OnPrevPageNoFloor(mm) == Result([mm EXCEPT !.currentPage = @ - 1], <<>>)

\* case "up", "k", "left", "h"
OnPrevPage(mm) ==
    IF mm.currentPage > 0
    THEN Result([mm EXCEPT !.currentPage = @ - 1], <<>>)
    ELSE IF mm.fiction # Nil /\ mm.chapterIndex > 0
    THEN Result([mm EXCEPT !.chapterIndex = @ - 1, !.loading = TRUE, !.goToLastPage = TRUE],
                <<LoadChapterCmd(mm.chapterIndex - 1, "prev page")>>)
    ELSE Result(mm, <<>>)

\* case "g", "home"
OnFirstPage(mm) == Result([mm EXCEPT !.currentPage = 0], <<>>)

\* case "G", "end"
OnLastPage(mm) ==
    Result(IF mm.totalPages > 0 THEN [mm EXCEPT !.currentPage = mm.totalPages - 1] ELSE mm, <<>>)

\* case "r"
OnReload(mm) ==
    Result([mm EXCEPT !.loading = TRUE, !.err = Nil], <<LoadFictionCmd("r")>>)

\* The digit keys without the upper bound on the chapter number.
OnDigitNoUpperBound(mm, chapterNum) ==
    IF mm.showTOC /\ mm.fiction # Nil /\ chapterNum >= 1
    THEN Result([mm EXCEPT !.chapterIndex = chapterNum - 1, !.loading = TRUE, !.showTOC = FALSE],
                <<LoadChapterCmd(chapterNum - 1, "digit")>>)
    ELSE Result(mm, <<>>)

\* case "0", ..., "9": chapterNum is the digit pressed
OnDigit(mm, chapterNum) ==
    IF mm.showTOC /\ mm.fiction # Nil /\ chapterNum >= 1 /\ chapterNum <= NumChapters(mm)
    THEN Result([mm EXCEPT !.chapterIndex = chapterNum - 1, !.loading = TRUE, !.showTOC = FALSE],
                <<LoadChapterCmd(chapterNum - 1, "digit")>>)
    ELSE Result(mm, <<>>)

\* case fictionLoadedMsg
OnFictionLoaded(mm, fiction) ==
    LET loaded == [mm EXCEPT !.loading = FALSE, !.fiction = fiction]
        n      == Len(fiction.Chapters)
        start1 == IF mm.startChapter >= n THEN n - 1 ELSE mm.startChapter
        start2 == IF start1 < 0 THEN 0 ELSE start1
    IN  IF n > 0
        THEN Result(loaded, <<LoadChapterCmd(start2, "start")>>)
        ELSE Result([loaded EXCEPT !.err = [error |-> "no chapters found"]], <<>>)

\* The chapter-loaded handler that takes the arrival of a chapter for the end of an error.
OnChapterLoadedClearsErr(mm, chapter, index) ==
    LET loaded == updateContent([mm EXCEPT !.loading = FALSE,
                                           !.err = Nil,
                                           !.currentChapter = chapter,
                                           !.chapterIndex = index])
    IN  IF loaded.goToLastPage
        THEN [loaded EXCEPT !.currentPage = IF loaded.totalPages > 0
                                            THEN loaded.totalPages - 1 ELSE @,
                            !.goToLastPage = FALSE]
        ELSE IF F64Positive(loaded.savedChapterProgress)
        THEN [loaded EXCEPT !.currentPage = IF loaded.totalPages > 0
                                            THEN RestorePage(loaded.totalPages,
                                                             loaded.savedChapterProgress)
                                            ELSE @,
                            !.savedChapterProgress = F64Zero]
        ELSE [loaded EXCEPT !.currentPage = 0]

\* The chapter-loaded handler with the saved fraction tried before goToLastPage.
OnChapterLoadedSavedFirst(mm, chapter, index) ==
    LET loaded == updateContent([mm EXCEPT !.loading = FALSE,
                                           !.currentChapter = chapter,
                                           !.chapterIndex = index])
    IN  IF F64Positive(loaded.savedChapterProgress)
        THEN [loaded EXCEPT !.currentPage = IF loaded.totalPages > 0
                                            THEN RestorePage(loaded.totalPages,
                                                             loaded.savedChapterProgress)
                                            ELSE @,
                            !.savedChapterProgress = F64Zero]
        ELSE IF loaded.goToLastPage
        THEN [loaded EXCEPT !.currentPage = IF loaded.totalPages > 0
                                            THEN loaded.totalPages - 1 ELSE @,
                            !.goToLastPage = FALSE]
        ELSE [loaded EXCEPT !.currentPage = 0]

\* The chapter-loaded handler with a check of the message against the chapter awaited.
OnChapterLoadedIfAwaited(mm, chapter, index) ==
    IF mm.chapterIndex # index THEN mm
    ELSE LET loaded == updateContent([mm EXCEPT !.loading = FALSE,
                                                !.currentChapter = chapter,
                                                !.chapterIndex = index])
         IN  IF loaded.goToLastPage
             THEN [loaded EXCEPT !.currentPage = IF loaded.totalPages > 0
                                                 THEN loaded.totalPages - 1 ELSE @,
                                 !.goToLastPage = FALSE]
             ELSE IF F64Positive(loaded.savedChapterProgress)
             THEN [loaded EXCEPT !.currentPage = IF loaded.totalPages > 0
                                                 THEN RestorePage(loaded.totalPages,
                                                                  loaded.savedChapterProgress)
                                                 ELSE @,
                                 !.savedChapterProgress = F64Zero]
             ELSE [loaded EXCEPT !.currentPage = 0]

\* case chapterLoadedMsg, up to the save
OnChapterLoaded(mm, chapter, index) ==
    LET loaded == updateContent([mm EXCEPT !.loading = FALSE,
                                           !.currentChapter = chapter,
                                           !.chapterIndex = index])
    IN  IF loaded.goToLastPage
        THEN [loaded EXCEPT !.currentPage = IF loaded.totalPages > 0
                                            THEN loaded.totalPages - 1 ELSE @,
                            !.goToLastPage = FALSE]
        ELSE IF F64Positive(loaded.savedChapterProgress)
        THEN [loaded EXCEPT !.currentPage = IF loaded.totalPages > 0
                                            THEN RestorePage(loaded.totalPages,
                                                             loaded.savedChapterProgress)
                                            ELSE @,
                            !.savedChapterProgress = F64Zero]
        ELSE [loaded EXCEPT !.currentPage = 0]

\* The error handler that records the error and leaves loading as it is.
OnErrorKeepsLoading(mm, err) == Result([mm EXCEPT !.err = err], <<>>)

\* case errorMsg
OnError(mm, err) == Result([mm EXCEPT !.loading = FALSE, !.err = err], <<>>)

\* The closure of loadFiction without the test of strconv.Atoi's error.
RunLoadFictionNoAtoi(mm, cmd) ==
    {ErrorMsg("failed to get fiction page", cmd)}
    \cup {FictionLoadedMsg(ServerFiction(n), cmd) : n \in ChapterCounts}

\* The closure loadFiction returns, run: the message it yields, for each answer of the site.
RunLoadFiction(mm, cmd) ==
    IF ~Atoi(mm.fictionID).ok
    THEN {ErrorMsg("invalid fiction ID", cmd)}
    ELSE {ErrorMsg("failed to get fiction page", cmd)}
         \cup {FictionLoadedMsg(ServerFiction(n), cmd) : n \in ChapterCounts}

\* The closure loadChapter(index) returns, run.
RunLoadChapter(mm, cmd) ==
    IF mm.fiction = Nil \/ cmd.index < 0 \/ cmd.index >= NumChapters(mm)
    THEN {ErrorMsg("invalid chapter index", cmd)}
    ELSE LET chapterID == mm.fiction.Chapters[cmd.index + 1].ID
         IN  {ErrorMsg("failed to get chapter page", cmd),
              ChapterLoadedMsg(ServerChapter(chapterID), cmd.index, cmd)}


(***************************************************************************)
(* The reader's state machine: one action per handler of Update, one for  *)
(* a command's closure running.                                           *)
(***************************************************************************)

Ev(kind, key, index, origin) == [kind |-> kind, key |-> key, index |-> index, origin |-> origin]

KeyEv(key) == Ev("key", key, 0, "")

Room == BagCardinality(cmds) < env.cap

\* The errors that are the site's doing.
SiteErrors == {"failed to get fiction page", "failed to get chapter page"}

Outstanding == BagToSet(cmds)

\* Update returns res for a key or a resize: the model and the commands it issues.
Handle(res, e) ==
    /\ pc = "running"
    /\ res.cmd # <<>> => Room
    /\ m' = res.m
    /\ cmds' = IF res.cmd # <<>> THEN cmds (+) SetToBag({res.cmd[1]}) ELSE cmds
    /\ env' = [env EXCEPT !.reloads = IF e.key = "r" THEN @ - 1 ELSE @]
    /\ ev' = e
    /\ UNCHANGED <<cfg, pc>>

\* Update returns res for the message msg, which leaves the queue.
Deliver(msg, res, c, e) ==
    /\ pc = "running"
    /\ m' = res.m
    /\ cfg' = c
    /\ cmds' = IF res.cmd # <<>>
               THEN (cmds (-) SetToBag({msg})) (+) SetToBag({res.cmd[1]})
               ELSE cmds (-) SetToBag({msg})
    /\ ev' = e
    /\ UNCHANGED <<pc, env>>

Init ==
    /\ pc = "new"
    /\ \E fictionID \in FictionIDs, size \in Sizes :
         /\ m = NewReaderModel(fictionID, size)
         /\ \E h \in InitialHistories(fictionID) :
              cfg = [ReadingHistory |-> h,
                     LastFiction    |-> IF h = <<>> THEN "" ELSE h[1].FictionID]
    /\ cmds = EmptyBag
    /\ env = [cap |-> MaxOutstanding, failures |-> MaxFailures, reloads |-> MaxReloads]
    /\ ev = Ev("NewReaderModel", "", 0, "")

\* m.SetStartChapter(chapterIndex), by the menu or the continue command, before Init
SetStartChapter ==
    /\ pc = "new"
    /\ ev.kind = "NewReaderModel"
    /\ \E chapterIndex \in StartChapters :
         /\ m' = [m EXCEPT !.startChapter = chapterIndex]
         /\ ev' = Ev("SetStartChapter", "", chapterIndex, "")
    /\ UNCHANGED <<cfg, pc, cmds, env>>

\* m.Init()
ReaderInit ==
    /\ pc = "new"
    /\ m' = restoreReadingPosition(m, cfg)
    /\ cmds' = cmds (+) SetToBag({LoadFictionCmd("Init")})
    /\ pc' = "running"
    /\ ev' = Ev("Init", "", 0, "")
    /\ UNCHANGED <<cfg, env>>

WindowSize == \E size \in Sizes : Handle(OnWindowSize(m, size), Ev("WindowSizeMsg", "", 0, ""))

\* case "ctrl+c", "q": the program ends, its goroutines with it
KeyQuit ==
    /\ pc = "running"
    /\ cfg' = saveReadingProgress(m, cfg)
    /\ pc' = "quit"
    /\ cmds' = EmptyBag
    /\ ev' = KeyEv("q")
    /\ UNCHANGED <<m, env>>

\* case "m": the menu model takes over
KeyMenu ==
    /\ pc = "running"
    /\ cfg' = saveReadingProgress(m, cfg)
    /\ pc' = "menu"
    /\ cmds' = EmptyBag
    /\ ev' = KeyEv("m")
    /\ UNCHANGED <<m, env>>

KeyTOC == Handle(OnTOC(m), KeyEv("t"))

KeyNextChapter == Handle(OnNextChapter(m), KeyEv("n"))

KeyPrevChapter == Handle(OnPrevChapter(m), KeyEv("p"))

KeyNextPage == Handle(OnNextPage(m), KeyEv("next page"))

KeyPrevPage == Handle(OnPrevPage(m), KeyEv("prev page"))

KeyFirstPage == Handle(OnFirstPage(m), KeyEv("g"))

KeyLastPage == Handle(OnLastPage(m), KeyEv("G"))

KeyReload == env.reloads > 0 /\ Handle(OnReload(m), KeyEv("r"))

KeyDigit == \E d \in 0..(MaxChapters + 1) : Handle(OnDigit(m, d), Ev("key", "digit", d, ""))

\* The goroutine of an issued command runs its closure and posts the message.
RunCmd ==
    /\ pc = "running"
    /\ \E cmd \in Outstanding :
         /\ cmd.type = "cmd"
         /\ \E msg \in (IF cmd.call = "loadFiction"
                        THEN RunLoadFiction(m, cmd) ELSE RunLoadChapter(m, cmd)) :
              /\ cmds' = (cmds (-) SetToBag({cmd})) (+) SetToBag({msg})
              /\ IF msg.type = "errorMsg" /\ msg.err.error \in SiteErrors
                 THEN env.failures > 0 /\ env' = [env EXCEPT !.failures = @ - 1]
                 ELSE UNCHANGED env
         /\ ev' = Ev("cmd", cmd.call, cmd.index, cmd.origin)
    /\ UNCHANGED <<m, cfg, pc>>

FictionLoaded ==
    \E msg \in Outstanding :
      /\ msg.type = "fictionLoadedMsg"
      /\ Deliver(msg, OnFictionLoaded(m, msg.fiction), cfg,
                 Ev("fictionLoadedMsg", "", 0, msg.origin))

\* The event tells whether the chapter that arrives is the one chapterIndex awaited.
ChapterLoaded ==
    \E msg \in Outstanding :
      /\ msg.type = "chapterLoadedMsg"
      /\ \E after \in {OnChapterLoaded(m, msg.chapter, msg.index)} :
           Deliver(msg, Result(after, <<>>), saveReadingProgress(after, cfg),
                   Ev("chapterLoadedMsg",
                      IF m.chapterIndex = msg.index THEN "" ELSE "not awaited",
                      msg.index, msg.origin))

Error ==
    \E msg \in Outstanding :
      /\ msg.type = "errorMsg"
      /\ Deliver(msg, OnError(m, msg.err), cfg, Ev("errorMsg", msg.call, msg.index, msg.origin))

Next ==
    \/ SetStartChapter
    \/ ReaderInit
    \/ WindowSize
    \/ KeyQuit
    \/ KeyMenu
    \/ KeyTOC
    \/ KeyNextChapter
    \/ KeyPrevChapter
    \/ KeyNextPage
    \/ KeyPrevPage
    \/ KeyFirstPage
    \/ KeyLastPage
    \/ KeyReload
    \/ KeyDigit
    \/ RunCmd
    \/ FictionLoaded
    \/ ChapterLoaded
    \/ Error

Spec == Init /\ [][Next]_vars


(***************************************************************************)
(* Two commands in flight.  Update handles keys while a load is running   *)
(* (no key handler reads m.loading), and bubbletea runs every tea.Cmd in  *)
(* a goroutine of its own, so the messages of two loads arrive in either  *)
(* order.  One terminal, no history, a site that answers every fetch; the *)
(* keys that turn pages and chapters.                                     *)
(***************************************************************************)

\* tea.Cmd's running or messages waiting when keys are typed ahead, at most.
MaxTypedAhead == 2

InitRace ==
    /\ pc = "new"
    /\ m = NewReaderModel("1", <<30, 8>>)
    /\ cfg = [ReadingHistory |-> <<>>, LastFiction |-> ""]
    /\ cmds = EmptyBag
    /\ env = [cap |-> MaxTypedAhead, failures |-> 0, reloads |-> 0]
    /\ ev = Ev("NewReaderModel", "", 0, "")

NextRace ==
    \/ ReaderInit
    \/ KeyNextChapter
    \/ KeyPrevChapter
    \/ KeyNextPage
    \/ KeyPrevPage
    \/ RunCmd
    \/ FictionLoaded
    \/ ChapterLoaded

SpecRace == InitRace /\ [][NextRace]_vars


(***************************************************************************)
(* Properties of the reader's paging (Spec, SpecRace).                     *)
(***************************************************************************)

\* ceil(a / b) for a >= 0 and b > 0.
CeilDiv(a, b) == (a \div b) + (IF a % b = 0 THEN 0 ELSE 1)

\* C1, as the specification states it: in every reachable state of the reader, after
\* every transition, 0 <= currentPage < totalPages.
C1_PageWithinPages == 0 <= m.currentPage /\ m.currentPage < m.totalPages

\* C1, amended: in every reachable state in which a chapter has been loaded,
\* 0 <= currentPage < totalPages; until the first chapter arrives totalPages is 0.
C1_PageWithinPagesOnceLoaded ==
    m.currentChapter # Nil => (0 <= m.currentPage /\ m.currentPage < m.totalPages)

\* A resize has reflowed a loaded chapter of several pages and left the reader on the last.
C1_Witness ==
    /\ ev.kind = "WindowSizeMsg"
    /\ m.currentChapter # Nil
    /\ m.totalPages > 1
    /\ m.currentPage = m.totalPages - 1

\* C2: whenever a chapter is loaded, totalPages = max(1, ceil(lineCount / linesPerPage))
\* for the line sequence and the linesPerPage the model holds, and linesPerPage >= 10.
C2_TotalPagesOfContent ==
    m.currentChapter # Nil =>
        /\ m.totalPages = Max(1, CeilDiv(Len(m.content), m.linesPerPage))
        /\ m.linesPerPage >= 10

\* A chapter whose lines do not fill its last page has arrived; another has been resized.
C2_Witness ==
    /\ m.currentChapter # Nil
    /\ Len(m.content) % m.linesPerPage # 0
    /\ m.totalPages > 1
    /\ \/ ev.kind = "chapterLoadedMsg" /\ m.linesPerPage = 10
       \/ ev.kind = "WindowSizeMsg" /\ m.linesPerPage > 10

\* C3: a next-page key on the last page of a chapter that is not the final one issues a
\* load of chapterIndex+1, and when that load completes the reader is at that chapter
\* with currentPage = 0.
C3_AdvanceLandsOnFirstPage ==
    [][ /\ ( /\ ev'.kind = "key" /\ ev'.key = "next page"
             /\ m.fiction # Nil /\ m.currentChapter # Nil
             /\ m.currentPage = m.totalPages - 1
             /\ m.chapterIndex < NumChapters(m) - 1 )
           => BagIn(LoadChapterCmd(m.chapterIndex + 1, "next page"), cmds')
        /\ (ev'.kind = "chapterLoadedMsg" /\ ev'.origin = "next page" /\ m.currentChapter # Nil)
           => (m'.chapterIndex = ev'.index /\ m'.currentPage = 0) ]_vars

\* C4: a previous-page key on page 0 of a chapter that is not the first issues a load of
\* chapterIndex-1, and when that load completes the reader is at that chapter on its
\* last page.
C4_RetreatLandsOnLastPage ==
    [][ /\ ( /\ ev'.kind = "key" /\ ev'.key = "prev page"
             /\ m.fiction # Nil /\ m.currentChapter # Nil
             /\ m.currentPage = 0
             /\ m.chapterIndex > 0 )
           => BagIn(LoadChapterCmd(m.chapterIndex - 1, "prev page"), cmds')
        /\ (ev'.kind = "chapterLoadedMsg" /\ ev'.origin = "prev page" /\ m.currentChapter # Nil)
           => (m'.chapterIndex = ev'.index /\ m'.currentPage = m'.totalPages - 1) ]_vars

\* The reader shows the last page of the final chapter.
AtLastPageOfFinalChapter ==
    /\ m.fiction # Nil /\ m.currentChapter # Nil
    /\ m.chapterIndex = NumChapters(m) - 1
    /\ m.currentPage = m.totalPages - 1

\* The reader shows page 0 of chapter 0.
AtFirstPageOfFirstChapter ==
    /\ m.fiction # Nil /\ m.currentChapter # Nil
    /\ m.chapterIndex = 0
    /\ m.currentPage = 0

\* The step leaves the position alone and issues no fetch.
Unmoved ==
    /\ m'.chapterIndex = m.chapterIndex
    /\ m'.currentPage = m.currentPage
    /\ m'.totalPages = m.totalPages
    /\ m'.content = m.content
    /\ m'.loading = m.loading
    /\ m'.goToLastPage = m.goToLastPage
    /\ cmds' = cmds

\* C5: a next-page key on the last page of the final chapter, and a previous-page key on
\* page 0 of chapter 0, change none of chapterIndex, currentPage, totalPages, the lines,
\* loading and goToLastPage, and issue no fetch.
C5_NoOpAtTheEnds ==
    [][ /\ (ev'.kind = "key" /\ ev'.key = "next page" /\ AtLastPageOfFinalChapter) => Unmoved
        /\ (ev'.kind = "key" /\ ev'.key = "prev page" /\ AtFirstPageOfFirstChapter) => Unmoved ]_vars

\* A next-page key has been handled on the only page of the final chapter: the page did
\* not move (there is no other) and no load was started (loading is off).
C5_Witness ==
    /\ ev.kind = "key" /\ ev.key = "next page"
    /\ AtLastPageOfFinalChapter
    /\ m.totalPages = 1
    /\ ~m.loading
    /\ cmds = EmptyBag

\* C7: every entry of the history has its ChapterProgress in [0, 1], whatever events
\* preceded the save that wrote it.
C7_ProgressInUnit ==
    \A i \in 1..Len(cfg.ReadingHistory) : F64InUnit(cfg.ReadingHistory[i].ChapterProgress)

\* The reader has quit on a later page of a chapter of three pages and saved its fraction.
C7_Witness ==
    /\ pc = "quit"
    /\ m.totalPages = 3
    /\ m.currentPage > 0
    /\ cfg.ReadingHistory # <<>>
    /\ cfg.ReadingHistory[1].FictionID = m.fictionID
    /\ cfg.ReadingHistory[1].ChapterProgress = F64Div(m.currentPage, 3)


(***************************************************************************)
(* The fraction saved and restored.  saveReadingProgress stores            *)
(* currentPage/totalPages; restoreReadingPosition takes a positive stored *)
(* fraction into savedChapterProgress and the chapter-loaded handler      *)
(* turns it into a page of the same chapter, which it saves again.  Here  *)
(* m holds the three fields these steps read and write.                   *)
(***************************************************************************)

\* The pages of the longest chapter saved and restored.
MaxPages == 24

InitRoundTrip ==
    /\ pc = "reading"
    /\ \E totalPages \in 1..MaxPages : \E currentPage \in 0..(totalPages - 1) :
         m = [currentPage |-> currentPage, totalPages |-> totalPages,
              savedChapterProgress |-> F64Zero]
    /\ cfg = [ReadingHistory |-> <<>>, LastFiction |-> ""]
    /\ cmds = EmptyBag
    /\ env = [cap |-> 0, failures |-> 0, reloads |-> 0]
    /\ ev = [kind |-> "chapter shown", page |-> m.currentPage, fraction |-> F64Zero]

\* saveReadingProgress on quitting: the fraction goes into the history.
SaveFraction ==
    /\ pc = "reading"
    /\ cfg' = UpdateReadingProgress(cfg, HistoryEntry("1", 0, ChapterProgress(m.currentPage, m.totalPages)))
    /\ pc' = "saved"
    /\ ev' = [ev EXCEPT !.kind = "saved"]
    /\ UNCHANGED <<m, cmds, env>>

\* The next session: restoreReadingPosition, then the chapter-loaded handler up to the save.
RestoreFraction ==
    /\ pc = "saved"
    /\ LET entry    == cfg.ReadingHistory[1]
           restored == IF F64Positive(entry.ChapterProgress)
                       THEN [m EXCEPT !.savedChapterProgress = entry.ChapterProgress]
                       ELSE m
       IN  /\ m' = IF F64Positive(restored.savedChapterProgress)
                   THEN [restored EXCEPT !.currentPage = RestorePage(restored.totalPages,
                                                                     restored.savedChapterProgress),
                                         !.savedChapterProgress = F64Zero]
                   ELSE [restored EXCEPT !.currentPage = 0]
           /\ ev' = [ev EXCEPT !.kind = "restored", !.fraction = entry.ChapterProgress]
    /\ pc' = "restored"
    /\ UNCHANGED <<cfg, cmds, env>>

\* The save that ends the chapter-loaded handler.
SaveAgain ==
    /\ pc = "restored"
    /\ cfg' = UpdateReadingProgress(cfg, HistoryEntry("1", 0, ChapterProgress(m.currentPage, m.totalPages)))
    /\ pc' = "saved again"
    /\ ev' = [ev EXCEPT !.kind = "saved again"]
    /\ UNCHANGED <<m, cmds, env>>

NextRoundTrip == SaveFraction \/ RestoreFraction \/ SaveAgain

SpecRoundTrip == InitRoundTrip /\ [][NextRoundTrip]_vars

\* C6: the page restored from the saved fraction f of a chapter of the same totalPages
\* is within one page of floor(totalPages * f), and the fraction saved right after the
\* restore is that of the restored page: floor(totalPages * it) is within one page of it.
C6_RoundTrip ==
    /\ pc \in {"restored", "saved again"} =>
         LET target == RealFloorMul(m.totalPages, ev.fraction)
         IN  /\ m.currentPage \in (target - 1)..(target + 1)
             /\ m.currentPage \in 0..(m.totalPages - 1)
    /\ pc = "saved again" =>
         LET again == cfg.ReadingHistory[1].ChapterProgress
         IN  /\ F64InUnit(again)
             /\ F64IsZero(again) <=> m.currentPage = 0
             /\ m.currentPage \in RealFloorMul(m.totalPages, again)..(RealFloorMul(m.totalPages, again) + 1)

\* A page whose fraction, rounded, restores to the page before it, and has been saved again.
C6_Witness ==
    /\ pc = "saved again"
    /\ ev.page > 1
    /\ m.currentPage = ev.page - 1


(***************************************************************************)
(* The reading history under UpdateReadingProgress (config.go).            *)
(***************************************************************************)

\* The fictions a history holds, at most.
MaxFictions == 3

\* The entries a reader saves: a fiction, the chapter reached.
Entries == {HistoryEntry(Digit[i], chapter, F64Zero) : i \in 1..MaxFictions, chapter \in 0..1}

IDs(h) == {h[i].FictionID : i \in 1..Len(h)}

DistinctIDs(h) == \A i, j \in 1..Len(h) : h[i].FictionID = h[j].FictionID => i = j

\* config.Load() found a history of at most two entries, their FictionIDs distinct.
InitConfig ==
    /\ pc = "config"
    /\ \E h \in UNION {[1..k -> Entries] : k \in 0..2} :
         /\ DistinctIDs(h)
         /\ cfg = [ReadingHistory |-> h, LastFiction |-> ""]
    /\ m = Nil
    /\ cmds = EmptyBag
    /\ env = [cap |-> 0, failures |-> 0, reloads |-> 0]
    /\ ev = [kind |-> "config.Load", entry |-> Nil, found |-> 0]

\* cfg.UpdateReadingProgress(entry); found is the position entry's fiction had (0: none).
CallUpdateReadingProgress ==
    /\ pc = "config"
    /\ \E entry \in Entries :
         /\ cfg' = UpdateReadingProgress(cfg, entry)
         /\ ev' = [kind  |-> "UpdateReadingProgress",
                   entry |-> entry,
                   found |-> IF Matches(cfg.ReadingHistory, entry.FictionID) = {} THEN 0
                             ELSE FirstMatch(cfg.ReadingHistory, entry.FictionID)]
    /\ UNCHANGED <<m, pc, cmds, env>>

NextConfig == CallUpdateReadingProgress

SpecConfig == InitConfig /\ [][NextConfig]_vars

\* C8: after UpdateReadingProgress(entry) the first element is entry, no other element
\* has its FictionID, the other entries are the former ones in their former order, and
\* the history is one longer exactly when the FictionID was not there before.
C8_UpsertAndPromote ==
    [][ ev'.kind = "UpdateReadingProgress" =>
          LET old   == cfg.ReadingHistory
              new   == cfg'.ReadingHistory
              entry == ev'.entry
          IN  /\ new # <<>> /\ new[1] = entry
              /\ \A i \in 2..Len(new) : new[i].FictionID # entry.FictionID
              /\ Tail(new) = SelectSeq(old, LAMBDA e : e.FictionID # entry.FictionID)
              /\ Len(new) = Len(old) + (IF entry.FictionID \in IDs(old) THEN 0 ELSE 1) ]_vars

\* An entry found last of three has been replaced and moved to the front.
C8_Witness ==
    /\ ev.kind = "UpdateReadingProgress"
    /\ ev.found = 3
    /\ Len(cfg.ReadingHistory) = 3
    /\ cfg.ReadingHistory[1] = ev.entry

\* C9: over UpdateReadingProgress calls from a history of distinct FictionIDs, the
\* FictionIDs stay distinct, none that was present disappears, the history never shrinks.
C9_NeverForgets ==
    [][ /\ DistinctIDs(cfg.ReadingHistory) => DistinctIDs(cfg'.ReadingHistory)
        /\ IDs(cfg.ReadingHistory) \subseteq IDs(cfg'.ReadingHistory)
        /\ Len(cfg'.ReadingHistory) >= Len(cfg.ReadingHistory) ]_vars

\* In a history grown to three distinct fictions the second has been updated.
C9_Witness ==
    /\ ev.kind = "UpdateReadingProgress"
    /\ Len(cfg.ReadingHistory) = 3
    /\ DistinctIDs(cfg.ReadingHistory)
    /\ ev.found = 2


(***************************************************************************)
(* The pages of the history menu: GetReadingHistoryPage (config.go).       *)
(***************************************************************************)

\* The entries of the longest history.
MaxEntries == 25

\* The largest page size asked for.
MaxPageSize == 10

\* The largest page number asked for.
MaxPageAsked == 4

\* A history of n entries, entry i that of fiction i.
HistoryOf(n) ==
    [i \in 1..n |-> HistoryEntry(Digits[(i \div 10) + 1] \o Digits[(i % 10) + 1], 0, F64Zero)]

InitPage ==
    /\ pc = "history"
    /\ \E n \in 0..MaxEntries : cfg = [ReadingHistory |-> HistoryOf(n), LastFiction |-> ""]
    /\ m = Nil
    /\ cmds = EmptyBag
    /\ env = [cap |-> 0, failures |-> 0, reloads |-> 0]
    /\ ev = [kind |-> "config.Load", page |-> 0, pageSize |-> 0, result |-> Nil]

\* cfg.GetReadingHistoryPage(page, pageSize)
CallGetReadingHistoryPage ==
    /\ pc = "history"
    /\ \E page \in (0 - 1)..MaxPageAsked, pageSize \in 1..MaxPageSize :
         ev' = [kind |-> "GetReadingHistoryPage", page |-> page, pageSize |-> pageSize,
                result |-> GetReadingHistoryPage(cfg, page, pageSize)]
    /\ UNCHANGED <<m, cfg, pc, cmds, env>>

NextHistoryPage == CallGetReadingHistoryPage

SpecPage == InitPage /\ [][NextHistoryPage]_vars

\* C10: for n > 0 entries and pageSize > 0, GetReadingHistoryPage clamps page into
\* [1, T], T = ceil(n / pageSize), and returns the entries at positions
\* [(page-1)*pageSize, min(page*pageSize, n)), totalPages = T, hasNext = (page < T),
\* hasPrev = (page > 1); for an empty history: no entries, 0 pages, neither flag.
C10_HistoryPage ==
    ev.kind = "GetReadingHistoryPage" =>
        LET h == cfg.ReadingHistory
            n == Len(h)
            r == ev.result
        IN  IF n = 0
            THEN r.entries = <<>> /\ r.totalPages = 0 /\ ~r.hasNext /\ ~r.hasPrev
            ELSE LET T    == CeilDiv(n, ev.pageSize)
                     page == IF ev.page < 1 THEN 1 ELSE IF ev.page > T THEN T ELSE ev.page
                     from == (page - 1) * ev.pageSize
                     to   == Min(page * ev.pageSize, n)
                 IN  /\ r.entries = [k \in 1..(to - from) |-> h[from + k]]
                     /\ r.totalPages = T
                     /\ r.hasNext = (page < T)
                     /\ r.hasPrev = (page > 1)

\* Page 3 of 25 entries by tens: the last five, nothing after, something before.
C10_Witness ==
    /\ ev.kind = "GetReadingHistoryPage"
    /\ Len(cfg.ReadingHistory) = 25 /\ ev.pageSize = 10 /\ ev.page = 3
    /\ Len(ev.result.entries) = 5
    /\ ev.result.entries[1] = cfg.ReadingHistory[21]
    /\ ~ev.result.hasNext /\ ev.result.hasPrev


(***************************************************************************)
(* Properties of the reader's chapter index, its errors and its fetches   *)
(* (Spec, SpecRace).                                                       *)
(***************************************************************************)

\* C11: whenever a fiction of n >= 1 chapters is loaded, 0 <= chapterIndex < n, for
\* every chapter list a fetch or a reload returns.
C11_ChapterIndexInRange ==
    (m.fiction # Nil /\ NumChapters(m) >= 1) =>
        (0 <= m.chapterIndex /\ m.chapterIndex < NumChapters(m))

\* The origins of the loads the chapter keys and the page keys issue.
NavOrigins == {"n", "p", "next page", "prev page"}

\* The chapterIndex a chapter or page key found, told from the load it issued.
IndexBeforeKey(e) == IF e.origin \in {"n", "next page"} THEN e.index - 1 ELSE e.index + 1

\* C12: when the chapter fetch a navigation key issued fails, chapterIndex is what it
\* was before the key, currentPage, totalPages and the lines are untouched, and a quit
\* right after would save that chapter.
C12_FailedFetchKeepsPosition ==
    [][ (ev'.kind = "errorMsg" /\ ev'.key = "loadChapter" /\ ev'.origin \in NavOrigins) =>
          /\ m'.chapterIndex = IndexBeforeKey(ev')
          /\ m'.currentPage = m.currentPage
          /\ m'.totalPages = m.totalPages
          /\ m'.content = m.content
          /\ saveReadingProgress(m', cfg').ReadingHistory[1].CurrentChapter = IndexBeforeKey(ev') ]_vars

\* C13: r pressed right after the fetch of chapter i failed re-issues that fetch: the
\* chapter load that follows the reload (the site listing the same chapters) is of chapter i.
C13_RetryLoadsFailedChapter ==
    [][ ( /\ ev.kind = "errorMsg" /\ ev.key = "loadChapter"
          /\ ev'.kind = "key" /\ ev'.key = "r"
          /\ m.fiction # Nil /\ ev.index < NumChapters(m) ) =>
          /\ m'.err = Nil
          /\ OnFictionLoaded(m', m.fiction).cmd # <<>>
          /\ OnFictionLoaded(m', m.fiction).cmd[1].index = ev.index ]_vars


(***************************************************************************)
(* The closures of loadFiction and loadChapter on their own: a command of *)
(* either kind, for any index, run against any fiction id and any fiction *)
(* loaded or none, and its message handled.                               *)
(***************************************************************************)

InitClosures ==
    /\ pc = "running"
    /\ \E fictionID \in FictionIDs, n \in {0 - 1} \cup ChapterCounts :
         m = [NewReaderModel(fictionID, <<30, 8>>) EXCEPT
                 !.fiction = IF n < 0 THEN Nil ELSE ServerFiction(n)]
    /\ cfg = [ReadingHistory |-> <<>>, LastFiction |-> ""]
    /\ \E cmd \in {LoadFictionCmd("call")}
                  \cup {LoadChapterCmd(index, "call") : index \in (0 - 1)..MaxChapters} :
         cmds = SetToBag({cmd})
    /\ env = [cap |-> MaxOutstanding, failures |-> MaxFailures, reloads |-> 0]
    /\ ev = Ev("call", "", 0, "")

NextClosures ==
    \/ RunCmd
    \/ FictionLoaded
    \/ ChapterLoaded
    \/ Error

SpecClosures == InitClosures /\ [][NextClosures]_vars

\* The command e tells of is one its closure rejects: a fiction id that is no number,
\* no fiction loaded, an index outside [0, n).
InvalidInput(e) ==
    \/ e.key = "loadFiction" /\ ~Atoi(m.fictionID).ok
    \/ e.key = "loadChapter"
       /\ (m.fiction = Nil \/ e.index < 0 \/ e.index >= NumChapters(m))

\* C14: a closure run on invalid input yields an error message that is not the site's
\* (no request was made: the site's budget of failures is untouched), and the handler
\* of an error message records it in err and clears loading.
C14_InvalidInputRejected ==
    [][ /\ (ev'.kind = "cmd" /\ InvalidInput(ev')) =>
             /\ \A msg \in BagToSet(cmds') :
                  /\ msg.type = "errorMsg"
                  /\ msg.err.error \in {"invalid fiction ID", "invalid chapter index"}
             /\ env' = env
        /\ ev'.kind = "errorMsg" =>
             \E msg \in BagToSet(cmds) :
                  /\ msg.type = "errorMsg"
                  /\ cmds' = cmds (-) SetToBag({msg})
                  /\ m'.err = msg.err
                  /\ ~m'.loading ]_vars

\* The error of a chapter index beyond the loaded fiction's list has been recorded.
C14_Witness ==
    /\ ev.kind = "errorMsg" /\ ev.key = "loadChapter"
    /\ m.fiction # Nil /\ ev.index >= NumChapters(m)
    /\ m.err = [error |-> "invalid chapter index"]
    /\ ~m.loading


\* C15: while loading is true, a chapter key, a page key at a chapter boundary, a TOC
\* digit or r issues no fetch.
C15_LoadingGatesFetches ==
    [][ (ev'.kind = "key" /\ ev'.key \in {"n", "p", "next page", "prev page", "digit", "r"}
         /\ m.loading) => cmds' = cmds ]_vars


\* C16: a chapter that arrives is applied whatever was requested since: after every
\* chapter-loaded event chapterIndex, the chapter and the lines are those of the message
\* handled, also when chapterIndex awaited another chapter.
C16_ArrivalOrderWins ==
    [][ ev'.kind = "chapterLoadedMsg" =>
          \E msg \in BagToSet(cmds) :
             /\ msg.type = "chapterLoadedMsg"
             /\ cmds' = cmds (-) SetToBag({msg})
             /\ m'.chapterIndex = msg.index
             /\ m'.currentChapter = msg.chapter
             /\ m'.content = formatChapterContent(msg.chapter, m.termWidth)
             /\ ~m'.loading ]_vars

\* The load of the start chapter, issued before every other, has been handled last: a
\* later request had moved chapterIndex elsewhere and its chapter had arrived before.
C16_Witness ==
    /\ ev.kind = "chapterLoadedMsg" /\ ev.origin = "start" /\ ev.key = "not awaited"
    /\ cmds = EmptyBag
    /\ m.chapterIndex = ev.index
    /\ m.currentChapter = ServerChapter(m.fiction.Chapters[ev.index + 1].ID)


(***************************************************************************)
(* A reload typed ahead.  As SpecRace, with r and the chapter keys: the   *)
(* closure of loadChapter reads m.fiction (reader.go:645, 649) in its     *)
(* goroutine, and the handler of fictionLoadedMsg writes it               *)
(* (reader.go:216).  RunCmd takes the closure's two reads as one step;    *)
(* a state in which a loadChapter closure is still to run while a         *)
(* fictionLoadedMsg waits is one in which the reads and the write are     *)
(* not ordered.                                                            *)
(***************************************************************************)

InitReloadRace ==
    /\ pc = "new"
    /\ m = NewReaderModel("1", <<30, 8>>)
    /\ cfg = [ReadingHistory |-> <<>>, LastFiction |-> ""]
    /\ cmds = EmptyBag
    /\ env = [cap |-> MaxTypedAhead, failures |-> 0, reloads |-> MaxReloads]
    /\ ev = Ev("NewReaderModel", "", 0, "")

NextReloadRace ==
    \/ ReaderInit
    \/ KeyNextChapter
    \/ KeyPrevChapter
    \/ KeyReload
    \/ RunCmd
    \/ FictionLoaded
    \/ ChapterLoaded
    \/ Error

SpecReloadRace == InitReloadRace /\ [][NextReloadRace]_vars

\* A goroutine still has to run the closure of loadChapter.
ChapterClosureRunning == \E cmd \in Outstanding : cmd.type = "cmd" /\ cmd.call = "loadChapter"

\* Update is about to replace m.fiction.
FictionWriteDue == \E msg \in Outstanding : msg.type = "fictionLoadedMsg"

\* C17: the fetches in the background never read the reader's mutable fields while
\* Update may be writing them: no closure of loadChapter is running when a
\* fictionLoadedMsg is due.
C17_NoConcurrentAccess == ~(ChapterClosureRunning /\ FictionWriteDue)


(***************************************************************************)
(* The landing page.  A chapter is on its way to a reader that shows      *)
(* chapter 1 on some page, with goToLastPage as the p key leaves it and   *)
(* savedChapterProgress as restoreReadingPosition leaves it: none, or a   *)
(* fraction an earlier session saved on a terminal of any size.           *)
(***************************************************************************)

\* The pages of the chapter whose fraction the earlier session saved.
MaxSavedPages == 4

SavedFractions ==
    {F64Zero} \cup {ChapterProgress(page, pages) : page \in 0..MaxSavedPages, pages \in 1..MaxSavedPages}

\* The reader showing chapter 1 on a terminal of the given size.
Showing(size) ==
    updateContent([NewReaderModel("1", size) EXCEPT !.fiction = ServerFiction(MaxChapters),
                                                    !.currentChapter = ServerChapter(101),
                                                    !.loading = FALSE])

InitLanding ==
    /\ pc = "running"
    /\ \E size \in Sizes, index \in 0..(MaxChapters - 1), goToLastPage \in BOOLEAN,
          savedChapterProgress \in SavedFractions :
         \E currentPage \in 0..(Showing(size).totalPages - 1) :
            /\ m = [Showing(size) EXCEPT !.chapterIndex = index,
                                         !.currentPage = currentPage,
                                         !.loading = TRUE,
                                         !.goToLastPage = goToLastPage,
                                         !.savedChapterProgress = savedChapterProgress]
            /\ cmds = SetToBag({LoadChapterCmd(index, IF goToLastPage THEN "p" ELSE "n")})
    /\ cfg = [ReadingHistory |-> <<>>, LastFiction |-> ""]
    /\ env = [cap |-> MaxOutstanding, failures |-> 0, reloads |-> 0]
    /\ ev = Ev("key", "", 0, "")

NextLanding == RunCmd \/ ChapterLoaded

SpecLanding == InitLanding /\ [][NextLanding]_vars

Clamp(x, lo, hi) == IF x < lo THEN lo ELSE IF x > hi THEN hi ELSE x

\* C18 as stated: on every chapter-loaded event one landing directive is applied:
\* with goToLastPage set the reader lands on page totalPages - 1; otherwise with a
\* saved fraction f > 0 pending, on clamp(floor(totalPages * f), 0, totalPages - 1),
\* the product being that of the numbers; otherwise on page 0.
C18_OneLandingDirective ==
    [][ ev'.kind = "chapterLoadedMsg" =>
          m'.currentPage =
             IF m.goToLastPage THEN m'.totalPages - 1
             ELSE IF F64Positive(m.savedChapterProgress)
             THEN Clamp(RealFloorMul(m'.totalPages, m.savedChapterProgress), 0, m'.totalPages - 1)
             ELSE 0 ]_vars

\* C18, amended: as above, the product being the float64 product, rounded to the
\* nearest float64 before it is truncated: the page is floor(totalPages * f) or the
\* page after it.
C18_OneLandingDirectiveFloat ==
    [][ ev'.kind = "chapterLoadedMsg" =>
          /\ m'.currentPage =
               IF m.goToLastPage THEN m'.totalPages - 1
               ELSE IF F64Positive(m.savedChapterProgress)
               THEN Clamp(F64ToInt(F64MulInt(m'.totalPages, m.savedChapterProgress)),
                          0, m'.totalPages - 1)
               ELSE 0
          /\ (~m.goToLastPage /\ F64Positive(m.savedChapterProgress)) =>
               LET floor == RealFloorMul(m'.totalPages, m.savedChapterProgress)
               IN  m'.currentPage \in {Clamp(floor, 0, m'.totalPages - 1),
                                       Clamp(floor + 1, 0, m'.totalPages - 1)} ]_vars

\* A chapter has arrived with a fraction pending whose float64 product with the
\* chapter's pages is a whole number their product as numbers falls short of.
C18_Witness ==
    /\ ev.kind = "chapterLoadedMsg"
    /\ ~m.goToLastPage
    /\ m.currentPage > 0
    /\ m.currentPage < m.totalPages - 1
    /\ \E f \in SavedFractions :
         /\ F64Positive(f)
         /\ F64ToInt(F64MulInt(m.totalPages, f)) = m.currentPage
         /\ RealFloorMul(m.totalPages, f) = m.currentPage - 1


\* C19: n and p move chapterIndex by one and load the chapter there when it is one of
\* the fiction's chapters, and do nothing otherwise; when the load completes the
\* reader is at that chapter on its first page, whichever the direction.
C19_ChapterKeysLandOnFirstPage ==
    [][ /\ (ev'.kind = "key" /\ ev'.key \in {"n", "p"}) =>
             LET target == IF ev'.key = "n" THEN m.chapterIndex + 1 ELSE m.chapterIndex - 1
             IN  IF m.fiction # Nil /\ 0 <= target /\ target < NumChapters(m)
                 THEN /\ m'.chapterIndex = target
                      /\ cmds' = cmds (+) SetToBag({LoadChapterCmd(target, ev'.key)})
                 ELSE /\ m'.chapterIndex = m.chapterIndex
                      /\ cmds' = cmds
        /\ ( /\ ev'.kind = "chapterLoadedMsg" /\ ev'.origin \in {"n", "p"}
             /\ m.currentChapter # Nil /\ ~F64Positive(m.savedChapterProgress) ) =>
             (m'.chapterIndex = ev'.index /\ m'.currentPage = 0) ]_vars


\* C20: a digit key d moves chapterIndex to d - 1, issues the load of that chapter and
\* closes the table of contents when the table is open, a fiction is loaded and
\* 1 <= d <= n; in every other case it leaves chapterIndex and the table as they are
\* and issues no fetch.
C20_JumpWithinChapters ==
    [][ (ev'.kind = "key" /\ ev'.key = "digit") =>
          LET d == ev'.index
          IN  IF m.showTOC /\ m.fiction # Nil /\ 1 <= d /\ d <= NumChapters(m)
              THEN /\ m'.chapterIndex = d - 1
                   /\ ~m'.showTOC
                   /\ cmds' = cmds (+) SetToBag({LoadChapterCmd(d - 1, "digit")})
              ELSE /\ m'.chapterIndex = m.chapterIndex
                   /\ m'.showTOC = m.showTOC
                   /\ cmds' = cmds ]_vars

\* The digit of the last chapter, typed in the table of contents of a reader showing
\* another chapter, has closed the table and issued that chapter's load.
C20_Witness ==
    /\ ev.kind = "key" /\ ev.key = "digit"
    /\ m.fiction # Nil /\ m.currentChapter # Nil
    /\ ev.index = NumChapters(m)
    /\ m.chapterIndex = ev.index - 1
    /\ m.currentChapter # ServerChapter(m.fiction.Chapters[ev.index].ID)
    /\ ~m.showTOC
    /\ BagIn(LoadChapterCmd(ev.index - 1, "digit"), cmds)


\* C21: a resize with a chapter loaded lays the chapter out again for the new width,
\* recomputes totalPages for the new height and brings currentPage back into the
\* pages (as it was if below the new totalPages, else totalPages - 1); a resize with
\* no chapter loaded changes the stored dimensions and linesPerPage only; either way
\* the chapter, its index, loading, err and the pending landing directives stay as
\* they are and no fetch is issued.
C21_ResizeReflowsOnly ==
    [][ ev'.kind = "WindowSizeMsg" =>
          /\ cmds' = cmds
          /\ m'.linesPerPage = Max(m'.termHeight - 5, 10)
          /\ IF m.currentChapter # Nil
             THEN /\ m'.content = formatChapterContent(m.currentChapter, m'.termWidth)
                  /\ m'.totalPages = Max(1, CeilDiv(Len(m'.content), m'.linesPerPage))
                  /\ m'.currentPage = IF m.currentPage < m'.totalPages
                                      THEN m.currentPage ELSE m'.totalPages - 1
             ELSE /\ m'.content = m.content
                  /\ m'.totalPages = m.totalPages
                  /\ m'.currentPage = m.currentPage
          /\ m' = [m EXCEPT !.termWidth = m'.termWidth,
                            !.termHeight = m'.termHeight,
                            !.linesPerPage = m'.linesPerPage,
                            !.content = m'.content,
                            !.totalPages = m'.totalPages,
                            !.currentPage = m'.currentPage] ]_vars

\* A resize to the taller terminal has laid the chapter shown out on fewer pages and
\* left the reader on the last of them, with the load p issued still on its way and
\* its goToLastPage still pending.
C21_Witness ==
    /\ ev.kind = "WindowSizeMsg"
    /\ m.currentChapter # Nil
    /\ m.linesPerPage > 10
    /\ Len(m.content) > 10
    /\ m.currentPage = m.totalPages - 1
    /\ m.loading
    /\ m.goToLastPage


\* C22: a reader opened with an explicit start chapter i (SetStartChapter(i) before
\* Init) starts at chapter i whatever the reading history holds for the fiction, the
\* history's chapter being used only when no start chapter was given; and the first
\* chapter fetched when the fiction arrives is the start chapter brought into
\* [0, n-1].
C22_ExplicitStartChapterWins ==
    [][ /\ (ev.kind = "SetStartChapter" /\ ev'.kind = "Init") => m'.startChapter = ev.index
        /\ (ev.kind = "NewReaderModel" /\ ev'.kind = "Init") =>
             m'.startChapter = IF Matches(cfg.ReadingHistory, m.fictionID) = {} THEN 0
                               ELSE cfg.ReadingHistory[FirstMatch(cfg.ReadingHistory,
                                                                  m.fictionID)].CurrentChapter
        /\ ( /\ ev'.kind = "fictionLoadedMsg" /\ ev'.origin = "Init"
             /\ NumChapters(m') > 0 ) =>
             BagIn(LoadChapterCmd(Clamp(m.startChapter, 0, NumChapters(m') - 1), "start"),
                   cmds') ]_vars


(***************************************************************************)
(* client.go: parseRelativeTime.  A text is a sequence of characters; the *)
(* texts tried are made of the words of the site's timestamps.  A time is *)
(* its distance from time.Now(): hours added by Time.Add and calendar     *)
(* days added by Time.AddDate, which are not hours of a fixed number.     *)
(***************************************************************************)

\* The words of a text, at most.
MaxWords == 4

\* The digits of a quantity.
QuantityDigits == {"1", "2"}

HourWord == <<"h", "o", "u", "r">>
DayWord == <<"d", "a", "y">>
WeekWord == <<"w", "e", "e", "k">>
AgoWord == <<"a", "g", "o">>
YesterdayWord == <<"y", "e", "s", "t", "e", "r", "d", "a", "y">>

TimeWords ==
    {HourWord, DayWord, WeekWord, AgoWord, YesterdayWord, <<"s">>, <<" ">>}
        \cup {<<d>> : d \in QuantityDigits}

RECURSIVE TextsOf(_)
TextsOf(k) ==
    IF k = 0 THEN {<<>>}
    ELSE LET shorter == TextsOf(k - 1)
         IN  shorter \cup {text \o word : text \in shorter, word \in TimeWords}

TimeTexts == TextsOf(MaxWords)

\* strings.Contains
Contains(text, substr) ==
    \E i \in 1..(Len(text) - Len(substr) + 1) : SubSeq(text, i, i + Len(substr) - 1) = substr

\* The position after the longest run, from position i on, of characters of a set.
RECURSIVE RunEnd(_, _, _)
RunEnd(text, i, chars) ==
    IF i <= Len(text) /\ text[i] \in chars THEN RunEnd(text, i + 1, chars) ELSE i

\* The positions at which (\d+)\s*word matches.
MatchStarts(text, word) ==
    {i \in 1..Len(text) :
        /\ text[i] \in DecimalDigits
        /\ LET k == RunEnd(text, RunEnd(text, i, DecimalDigits), {" "})
           IN  k + Len(word) - 1 <= Len(text) /\ SubSeq(text, k, k + Len(word) - 1) = word}

\* regexp.FindStringSubmatch of (\d+)\s*word: the digits of the leftmost match, or
\* no match at all.
FindQuantity(text, word) ==
    IF MatchStarts(text, word) = {} THEN <<>>
    ELSE LET i == CHOOSE s \in MatchStarts(text, word) : \A t \in MatchStarts(text, word) : s <= t
         IN  <<SubSeq(text, i, RunEnd(text, i, DecimalDigits) - 1)>>

\* The time so many hours and calendar days from now.
FromNow(hours, days) == [hours |-> hours, days |-> days]

Now == FromNow(0, 0)

Parsed(time) == [time |-> time, err |-> Nil]

\* parseRelativeTime(timeText)
parseRelativeTime(timeText) ==
    IF ~Contains(timeText, AgoWord) THEN Parsed(Now)
    ELSE IF Contains(timeText, HourWord)
    THEN LET matches == FindQuantity(timeText, HourWord)
         IN  IF matches # <<>> THEN Parsed(FromNow(-AtoiDigits(matches[1]), 0)) ELSE Parsed(Now)
    ELSE IF Contains(timeText, DayWord)
    THEN LET matches == FindQuantity(timeText, DayWord)
         IN  IF matches # <<>> THEN Parsed(FromNow(0, -AtoiDigits(matches[1]))) ELSE Parsed(Now)
    ELSE IF Contains(timeText, WeekWord)
    THEN LET matches == FindQuantity(timeText, WeekWord)
         IN  IF matches # <<>> THEN Parsed(FromNow(0, -AtoiDigits(matches[1]) * 7)) ELSE Parsed(Now)
    ELSE Parsed(Now)

\* m holds the text and, once parsed, what parseRelativeTime returned.
InitTime ==
    /\ pc = "text"
    /\ \E timeText \in TimeTexts : m = [timeText |-> timeText, parsed |-> Nil]
    /\ cfg = [ReadingHistory |-> <<>>, LastFiction |-> ""]
    /\ cmds = EmptyBag
    /\ env = [cap |-> 0, failures |-> 0, reloads |-> 0]
    /\ ev = Ev("text", "", 0, "")

CallParseRelativeTime ==
    /\ pc = "text"
    /\ m' = [m EXCEPT !.parsed = parseRelativeTime(m.timeText)]
    /\ pc' = "parsed"
    /\ ev' = Ev("parseRelativeTime", "", 0, "")
    /\ UNCHANGED <<cfg, cmds, env>>

NextTime == CallParseRelativeTime

SpecTime == InitTime /\ [][NextTime]_vars

\* The text says "N word(s)": a number, then the word, with or without blanks between.
Says(text, word) == FindQuantity(text, word) # <<>>

\* The N of "N word(s)".
Quantity(text, word) == AtoiDigits(FindQuantity(text, word)[1])

\* C23: parsing never fails, and a text containing "ago" and "N hour(s)"
\* gives now - N hours, one containing "ago" and "N day(s)" now - N days, one
\* containing "ago" and "N week(s)" now - 7N days, and any other text gives now.
C23_RelativeTime ==
    pc = "parsed" =>
      LET text == m.timeText
          ago  == Contains(text, AgoWord)
      IN  /\ m.parsed.err = Nil
          /\ (ago /\ Says(text, HourWord)) => m.parsed.time = FromNow(-Quantity(text, HourWord), 0)
          /\ (ago /\ Says(text, DayWord)) => m.parsed.time = FromNow(0, -Quantity(text, DayWord))
          /\ (ago /\ Says(text, WeekWord)) => m.parsed.time = FromNow(0, -7 * Quantity(text, WeekWord))
          /\ ~(ago /\ (Says(text, HourWord) \/ Says(text, DayWord) \/ Says(text, WeekWord)))
               => m.parsed.time = Now


(***************************************************************************)
(* client.go: parseStats.  The document is the two lists under            *)
(* div.stats-content: the texts of the items of the list of counts, and,  *)
(* for the list of ratings, the data-content attribute of each item's     *)
(* span, if it has one.  A score is held in tenths.                       *)
(***************************************************************************)

\* The lengths of the two lists: short of the last item read, and long enough.
RatingLengths == {8, 9, 10}
CountLengths == {11, 12}

ScoreItems == {1, 3, 5, 7, 9}
CountItems == {1, 3, 5, 7, 9, 11}

TwoDigits(i) == <<Digits[(i \div 10) + 1], Digits[(i % 10) + 1]>>

\* The text of item i of the list of counts (goquery counts from 0) when it shows
\* the number 100 + i, as " 1,07 ".
CountText(i) == <<" ", "1", ",">> \o TwoDigits(i) \o <<" ">>

\* The attribute of item i of the list of ratings when it shows the score
\* i/2 + 0.5, rounded down to a half, out of 5, as "3.5 / 5".
RatingText(i) == <<Digits[(i \div 2) + 1], ".", "5", " ", "/", " ", "5">>

\* Other items: a score of zero, and what is not a number.
OtherRatings == {Attr(<<"0", " ", "/", " ", "5">>), Attr(<<"x", "/", "5">>), NoAttr}
OtherCounts == {<<"x">>, <<>>}

\* The lists the site may serve: some of the items read hold another text.
RatingLists ==
    {[i \in 1..len |-> IF (i - 1) \in others THEN other ELSE Attr(RatingText(i - 1))] :
        len \in RatingLengths, others \in SUBSET ScoreItems, other \in OtherRatings}

CountLists ==
    {[i \in 1..len |-> IF (i - 1) \in others THEN other ELSE CountText(i - 1)] :
        len \in CountLengths, others \in SUBSET CountItems, other \in OtherCounts}

\* selection.Eq(i).Text()
EqText(list, i) == list[i + 1]

\* regexp [,\s] replaced by nothing
RECURSIVE Cleaned(_)
Cleaned(raw) ==
    IF raw = <<>> THEN <<>>
    ELSE IF raw[1] \in {",", " "} THEN Cleaned(Tail(raw))
    ELSE <<raw[1]>> \o Cleaned(Tail(raw))

\* parseNumber
parseNumber(raw) ==
    LET cleaned == Cleaned(raw)
    IN  IF AllDigits(cleaned) THEN AtoiDigits(cleaned) ELSE 0

\* strings.Split(raw, "/")[0]
RECURSIVE BeforeSlash(_)
BeforeSlash(raw) ==
    IF raw = <<>> \/ raw[1] = "/" THEN <<>> ELSE <<raw[1]>> \o BeforeSlash(Tail(raw))

\* strings.TrimSpace
RECURSIVE TrimSpace(_)
TrimSpace(str) ==
    IF str = <<>> THEN <<>>
    ELSE IF str[1] = " " THEN TrimSpace(Tail(str))
    ELSE IF str[Len(str)] = " " THEN TrimSpace(SubSeq(str, 1, Len(str) - 1))
    ELSE str

\* strconv.ParseFloat of the forms the lists hold: digits, or digits, a point and one
\* digit; in tenths.
ParseFloat(str) ==
    IF AllDigits(str) THEN [ok |-> TRUE, tenths |-> 10 * AtoiDigits(str)]
    ELSE IF /\ Len(str) >= 3
            /\ str[Len(str) - 1] = "."
            /\ str[Len(str)] \in DecimalDigits
            /\ AllDigits(SubSeq(str, 1, Len(str) - 2))
    THEN [ok |-> TRUE,
          tenths |-> 10 * AtoiDigits(SubSeq(str, 1, Len(str) - 2)) + DecimalValue(str[Len(str)])]
    ELSE [ok |-> FALSE, tenths |-> 0]

\* parseRating: -1 for what is not a number
parseRating(raw) ==
    LET rating == ParseFloat(TrimSpace(BeforeSlash(raw)))
    IN  IF rating.ok THEN rating.tenths ELSE -10

\* getContent
getContent(attr) == IF attr.exists THEN attr.content ELSE <<>>

\* The FictionStats of &Fiction{ID: id}
ZeroStats ==
    [Pages |-> 0, Ratings |-> 0, Favorites |-> 0, Followers |-> 0,
     Views |-> [Total |-> 0, Average |-> 0],
     Score |-> [Style |-> 0, Story |-> 0, Grammar |-> 0, Overall |-> 0, Character |-> 0]]

\* parseStats with each count read whenever its own item is there.
parseStatsCountsPartial(statsList, ratingList, stats) ==
    LET counted ==
            [stats EXCEPT !.Pages = IF Len(statsList) > 11 THEN parseNumber(EqText(statsList, 11)) ELSE @,
                          !.Ratings = IF Len(statsList) > 9 THEN parseNumber(EqText(statsList, 9)) ELSE @,
                          !.Followers = IF Len(statsList) > 5 THEN parseNumber(EqText(statsList, 5)) ELSE @,
                          !.Favorites = IF Len(statsList) > 7 THEN parseNumber(EqText(statsList, 7)) ELSE @,
                          !.Views.Total = IF Len(statsList) > 1 THEN parseNumber(EqText(statsList, 1)) ELSE @,
                          !.Views.Average = IF Len(statsList) > 3 THEN parseNumber(EqText(statsList, 3)) ELSE @]
    IN  IF Len(ratingList) >= 10
        THEN [counted EXCEPT !.Score.Overall = parseRating(getContent(EqText(ratingList, 1))),
                             !.Score.Style = parseRating(getContent(EqText(ratingList, 3))),
                             !.Score.Story = parseRating(getContent(EqText(ratingList, 5))),
                             !.Score.Character = parseRating(getContent(EqText(ratingList, 7))),
                             !.Score.Grammar = parseRating(getContent(EqText(ratingList, 9)))]
        ELSE counted

\* c.parseStats(doc, &fiction.Stats)
parseStats(statsList, ratingList, stats) ==
    LET counted ==
            IF Len(statsList) >= 12
            THEN [stats EXCEPT !.Pages = parseNumber(EqText(statsList, 11)),
                               !.Ratings = parseNumber(EqText(statsList, 9)),
                               !.Followers = parseNumber(EqText(statsList, 5)),
                               !.Favorites = parseNumber(EqText(statsList, 7)),
                               !.Views.Total = parseNumber(EqText(statsList, 1)),
                               !.Views.Average = parseNumber(EqText(statsList, 3))]
            ELSE stats
    IN  IF Len(ratingList) >= 10
        THEN [counted EXCEPT !.Score.Overall = parseRating(getContent(EqText(ratingList, 1))),
                             !.Score.Style = parseRating(getContent(EqText(ratingList, 3))),
                             !.Score.Story = parseRating(getContent(EqText(ratingList, 5))),
                             !.Score.Character = parseRating(getContent(EqText(ratingList, 7))),
                             !.Score.Grammar = parseRating(getContent(EqText(ratingList, 9)))]
        ELSE counted

\* m holds the two lists and the fiction's Stats.
InitStats ==
    /\ pc = "document"
    /\ \E statsList \in CountLists, ratingList \in RatingLists :
         m = [statsList |-> statsList, ratingList |-> ratingList, stats |-> ZeroStats]
    /\ cfg = [ReadingHistory |-> <<>>, LastFiction |-> ""]
    /\ cmds = EmptyBag
    /\ env = [cap |-> 0, failures |-> 0, reloads |-> 0]
    /\ ev = Ev("document", "", 0, "")

CallParseStats ==
    /\ pc = "document"
    /\ m' = [m EXCEPT !.stats = parseStats(m.statsList, m.ratingList, m.stats)]
    /\ pc' = "parsed"
    /\ ev' = Ev("parseStats", "", 0, "")
    /\ UNCHANGED <<cfg, cmds, env>>

NextStats == CallParseStats

SpecStats == InitStats /\ [][NextStats]_vars

\* The score item i of the list of ratings shows, in tenths; -1 for what is no number.
ScoreShown(list, i) ==
    IF list[i + 1] = Attr(RatingText(i)) THEN 10 * (i \div 2) + 5
    ELSE IF list[i + 1] = Attr(<<"0", " ", "/", " ", "5">>) THEN 0
    ELSE -10

\* The number item i of the list of counts shows; 0 for what is no number.
CountShown(list, i) == IF list[i + 1] = CountText(i) THEN 100 + i ELSE 0

\* C24: with a list of ratings of fewer than 10 items all five scores are -1; with one
\* of at least 10 items each score is the one its item (1, 3, 5, 7, 9 for overall,
\* style, story, character, grammar) shows, and -1 where that cannot be parsed.
C24_ScoresDegradeToSentinel ==
    pc = "parsed" =>
      LET score == m.stats.Score
          list  == m.ratingList
      IN  IF Len(list) < 10
          THEN score = [Style |-> -10, Story |-> -10, Grammar |-> -10,
                        Overall |-> -10, Character |-> -10]
          ELSE score = [Overall   |-> ScoreShown(list, 1),
                        Style     |-> ScoreShown(list, 3),
                        Story     |-> ScoreShown(list, 5),
                        Character |-> ScoreShown(list, 7),
                        Grammar   |-> ScoreShown(list, 9)]

\* C25: with a list of counts of fewer than 12 items all six counts are 0; with one of
\* at least 12 items pages, ratings, followers, favorites, total views and average
\* views are the numbers items 11, 9, 5, 7, 1 and 3 show, and 0 where that is no
\* number; and the scores are what the list of ratings alone gives, whatever the
\* list of counts.
C25_CountsDegradeToZero ==
    pc = "parsed" =>
      LET list == m.statsList
      IN  /\ IF Len(list) < 12
             THEN [m.stats EXCEPT !.Score = ZeroStats.Score] = ZeroStats
             ELSE /\ m.stats.Pages = CountShown(list, 11)
                  /\ m.stats.Ratings = CountShown(list, 9)
                  /\ m.stats.Followers = CountShown(list, 5)
                  /\ m.stats.Favorites = CountShown(list, 7)
                  /\ m.stats.Views = [Total |-> CountShown(list, 1), Average |-> CountShown(list, 3)]
          /\ m.stats.Score = parseStats(<<>>, m.ratingList, ZeroStats).Score

\* A list of counts one item short beside a list of ratings that is long enough: no
\* count is filled, the scores are.
C25_Witness ==
    /\ pc = "parsed"
    /\ Len(m.statsList) = 11
    /\ Len(m.ratingList) >= 10
    /\ m.stats.Score.Overall > 0
    /\ m.stats.Pages = 0
    /\ m.stats.Views.Total = 0


(***************************************************************************)
(* The siblings of a chapter.  parseChapter reads the links to the next   *)
(* and the previous chapter off the page; the reader fetches chapters by  *)
(* the ids of the fiction's chapter list.  The pages tried hold any pair  *)
(* of links; the reader tried shows a chapter of the site.                *)
(***************************************************************************)

\* What stands where the chapter's id does in a link.
IdTexts == {<<"1", "0", "2">>, <<"7">>, <<"x">>, <<"1", "x">>, <<>>}

RECURSIVE JoinSlash(_)
JoinSlash(parts) ==
    IF Len(parts) = 1 THEN parts[1]
    ELSE parts[1] \o <<"/">> \o JoinSlash(Tail(parts))

\* The first len of the parts of "/f/1/t/c/<id>/n", joined again.
SiblingHref(len, id) == JoinSlash(SubSeq(<<<<>>, <<"f">>, <<"1">>, <<"t">>, <<"c">>, id, <<"n">>>>, 1, len))

Anchors ==
    {NoIcon, Icon(NoAttr)} \cup {Icon(Attr(SiblingHref(len, id))) : len \in 4..7, id \in IdTexts}

\* The reader showing chapter index + 1 of a fiction of MaxChapters chapters.
ShowingAt(size, index) ==
    updateContent([NewReaderModel("1", size) EXCEPT
                      !.fiction = ServerFiction(MaxChapters),
                      !.chapterIndex = index,
                      !.currentChapter = ServerChapter(ServerFiction(MaxChapters).Chapters[index + 1].ID),
                      !.loading = FALSE])

InitSibling ==
    /\ \/ /\ pc = "document"
          /\ \E next \in Anchors, prev \in Anchors :
               m = [doc |-> [next |-> next, prev |-> prev], chapter |-> Nil]
       \/ /\ pc = "running"
          /\ \E size \in Sizes, index \in 0..(MaxChapters - 1) : m = ShowingAt(size, index)
    /\ cfg = [ReadingHistory |-> <<>>, LastFiction |-> ""]
    /\ cmds = EmptyBag
    /\ env = [cap |-> MaxOutstanding, failures |-> 0, reloads |-> 0]
    /\ ev = Ev("", "", 0, "")

\* parseChapter, as to the siblings
CallParseChapter ==
    /\ pc = "document"
    /\ m' = [m EXCEPT !.chapter = [Next |-> Sibling(m.doc.next), Previous |-> Sibling(m.doc.prev)]]
    /\ pc' = "parsed"
    /\ ev' = Ev("parseChapter", "", 0, "")
    /\ UNCHANGED <<cfg, cmds, env>>

NextSibling ==
    \/ CallParseChapter
    \/ KeyNextChapter
    \/ KeyPrevChapter
    \/ KeyNextPage
    \/ KeyPrevPage
    \/ RunCmd
    \/ ChapterLoaded

SpecSibling == InitSibling /\ [][NextSibling]_vars

\* The id a link shows: that of its sixth part, if it has one and that is a number.
IdShown(anchor) ==
    IF \E len \in 6..7 : anchor = Icon(Attr(SiblingHref(len, <<"1", "0", "2">>))) THEN 102
    ELSE IF \E len \in 6..7 : anchor = Icon(Attr(SiblingHref(len, <<"7">>))) THEN 7
    ELSE 0 - 1

\* C26: a chapter's page without the icon and link to the next (the previous) chapter
\* gives Next = -1 (Previous = -1), and so does a link whose sixth part is missing or
\* no number, a link with a number there giving that number; and every chapter the
\* reader fetches is fetched by the id the fiction's chapter list holds at the index
\* asked for, whatever the siblings of the chapter shown, -1 among them.
C26_SiblingSentinel ==
    [][ /\ pc' = "parsed" =>
             /\ m'.chapter.Next = IdShown(m'.doc.next)
             /\ m'.chapter.Previous = IdShown(m'.doc.prev)
        /\ (pc = "running" /\ ev'.kind = "cmd") =>
             \A msg \in BagToSet(cmds') \ BagToSet(cmds) :
                msg.type = "chapterLoadedMsg" =>
                   /\ msg.index \in 0..(NumChapters(m) - 1)
                   /\ msg.chapter = ServerChapter(m.fiction.Chapters[msg.index + 1].ID)
                   /\ m.fiction.Chapters[msg.index + 1].ID \notin {0 - 1} ]_vars

\* A page with no icon for the next chapter and a link to the previous one that has
\* no number for its sixth part has been parsed: both siblings are -1.
C26_Witness ==
    /\ pc = "parsed"
    /\ ~m.doc.next.icon
    /\ m.doc.prev.href.exists
    /\ Len(SplitSlash(m.doc.prev.href.content)) >= 6
    /\ m.chapter = [Next |-> 0 - 1, Previous |-> 0 - 1]


(***************************************************************************)
(* reader.go: wrapText on its own.  A text is its paragraphs, a paragraph *)
(* the words strings.Fields finds in it, a word a run of letters of some  *)
(* length.                                                                *)
(***************************************************************************)

\* The paragraphs of a text and the words of a paragraph, at most.
MaxParagraphs == 2
MaxParagraphWords == 3

\* The lengths of the words, and the widths asked for.
WordLengths == {1, 12, 19, 45}
WrapWidths == {10, 20, 21, 30, 39, 40, 41}

RECURSIVE SeqsOf(_, _)
SeqsOf(S, k) ==
    IF k = 0 THEN {<<>>}
    ELSE LET shorter == SeqsOf(S, k - 1)
         IN  shorter \cup {Append(seq, x) : seq \in shorter, x \in S}

WrapParagraphs == SeqsOf(SeqsOf({Word(n) : n \in WordLengths}, MaxParagraphWords), MaxParagraphs)

\* m holds the text, the width and, once wrapped, the lines.
InitWrap ==
    /\ pc = "text"
    /\ \E paragraphs \in WrapParagraphs, width \in WrapWidths :
         m = [paragraphs |-> paragraphs, width |-> width, lines |-> <<>>]
    /\ cfg = [ReadingHistory |-> <<>>, LastFiction |-> ""]
    /\ cmds = EmptyBag
    /\ env = [cap |-> 0, failures |-> 0, reloads |-> 0]
    /\ ev = Ev("text", "", 0, "")

CallWrapText ==
    /\ pc = "text"
    /\ m' = [m EXCEPT !.lines = wrapText(m.paragraphs, m.width)]
    /\ pc' = "wrapped"
    /\ ev' = Ev("wrapText", "", 0, "")
    /\ UNCHANGED <<cfg, cmds, env>>

NextWrap == CallWrapText

SpecWrap == InitWrap /\ [][NextWrap]_vars

\* C27: wrapText brings a width below 40 up to 40: the text wrapped at such a width is
\* the text wrapped at 40.
C27_WidthFloor ==
    (pc = "wrapped" /\ m.width < 40) => m.lines = wrapText(m.paragraphs, 40)


\* strings.Join(words, " ")
RECURSIVE JoinSpace(_)
JoinSpace(words) ==
    IF Len(words) = 1 THEN words[1] ELSE words[1] \o " " \o JoinSpace(Tail(words))

\* The lines are the words, in their order, some to each line, with a blank between
\* the words of a line, and no line of several words is longer than the width.
RECURSIVE LinesHoldWords(_, _, _)
LinesHoldWords(lines, words, width) ==
    IF lines = <<>> THEN words = <<>>
    ELSE \E j \in 1..Len(words) :
            /\ lines[1] = JoinSpace(SubSeq(words, 1, j))
            /\ j > 1 => Len(lines[1]) <= width
            /\ LinesHoldWords(Tail(lines), SubSeq(words, j + 1, Len(words)), width)

\* The lines of the paragraphs, one paragraph after the other with an empty line
\* between them, paragraphs without words left out.
RECURSIVE TextHoldsParagraphs(_, _, _)
TextHoldsParagraphs(lines, paragraphs, width) ==
    IF paragraphs = <<>> THEN lines = <<>>
    ELSE IF paragraphs[1] = <<>> THEN TextHoldsParagraphs(lines, Tail(paragraphs), width)
    ELSE \E k \in 1..Len(lines) :
            /\ \A i \in 1..k : lines[i] # ""
            /\ LinesHoldWords(SubSeq(lines, 1, k), paragraphs[1], width)
            /\ IF k = Len(lines)
               THEN \A i \in 2..Len(paragraphs) : paragraphs[i] = <<>>
               ELSE /\ lines[k + 1] = ""
                    /\ \E i \in 2..Len(paragraphs) : paragraphs[i] # <<>>
                    /\ TextHoldsParagraphs(SubSeq(lines, k + 2, Len(lines)),
                                           Tail(paragraphs), width)

\* The width wrapText wraps at.
EffectiveWidth(width) == IF width <= 20 THEN 40 ELSE width

\* C28: the lines of a wrapped paragraph are its words, whole and in their order, and
\* each line is no longer than the width wrapped at, or is a single word.
C28_WordsKeptLinesFit ==
    (pc = "wrapped" /\ \E i \in 1..Len(m.paragraphs) : m.paragraphs[i] # <<>>) =>
        TextHoldsParagraphs(m.lines, m.paragraphs, EffectiveWidth(m.width))

\* A paragraph has been wrapped in which a word longer than the width stands on a
\* line of its own between two lines of shorter words.
C28_Witness ==
    /\ pc = "wrapped"
    /\ Len(m.lines) >= 3
    /\ Len(m.lines[1]) <= EffectiveWidth(m.width)
    /\ Len(m.lines[2]) > EffectiveWidth(m.width)
    /\ m.lines[3] # ""


(***************************************************************************)
(* menu.go: the MenuModel.  While pc = "menu", m is the menu; a key that  *)
(* hands the program to another model leaves m that model (the reader as  *)
(* NewReaderModel, SetStartChapter and Init leave it) or, for the browse  *)
(* model and on quitting, the menu as it was.  A text input is its value  *)
(* and its focus.                                                         *)
(***************************************************************************)

\* The characters of a text input, at most.
MaxInput == 1

\* The keys typed into the inputs.
TypedKeys == {"0", "1", "2", "x"}

\* The keys pressed in the menu.
MenuKeys == {"q", "c", "h", "n", "b", "s", "esc", "enter", "left", "right", "l"}
                \cup TypedKeys \cup {Digit[i] : i \in 1..9}

\* The history config.Load finds: n entries, entry i that of fiction i at chapter i % 3.
MenuHistory(n) ==
    [i \in 1..n |-> HistoryEntry(Digits[(i \div 10) + 1] \o Digits[(i % 10) + 1], i % 3, F64Zero)]

\* NewMenuModel()
NewMenuModel ==
    [state           |-> "MenuStateMain",
     historyPage     |-> 1,
     historyPageSize |-> 10,
     fictionInput    |-> [value |-> "", focus |-> TRUE],
     chapterInput    |-> [value |-> "", focus |-> FALSE]]

\* What a handler of the menu returns: the model that goes on and, for the reader,
\* what it is opened with.
Stay(menu) == [to |-> "menu", menu |-> menu, fictionID |-> "", startChapter |-> 0]
Leave(menu, to) == [to |-> to, menu |-> menu, fictionID |-> "", startChapter |-> 0]
OpenReader(menu, fictionID, startChapter) ==
    [to |-> "reader", menu |-> menu, fictionID |-> fictionID, startChapter |-> startChapter]

\* textinput.Update with a key: a focused input takes a character typed.
InputUpdate(input, key) ==
    IF input.focus /\ key \in TypedKeys /\ Len(input.value) < MaxInput
    THEN [input EXCEPT !.value = @ \o key]
    ELSE input

\* m.handleMainMenu(msg)
handleMainMenu(menu, c, key) ==
    CASE key = "q" -> Leave(menu, "quit")
      [] key = "c" -> IF Len(c.ReadingHistory) > 0
                      THEN OpenReader(menu, c.ReadingHistory[1].FictionID,
                                      c.ReadingHistory[1].CurrentChapter)
                      ELSE Stay(menu)
      [] key = "h" -> Stay([menu EXCEPT !.state = "MenuStateHistory", !.historyPage = 1])
      [] key = "n" -> Stay([menu EXCEPT !.state = "MenuStateNewBook", !.fictionInput.focus = TRUE])
      [] key = "b" -> Leave(menu, "browse")
      [] OTHER -> Stay(menu)

\* m.handleHistoryMenu(msg)
handleHistoryMenu(menu, c, key) ==
    LET page == GetReadingHistoryPage(c, menu.historyPage, menu.historyPageSize)
    IN  CASE key = "q" -> Leave(menu, "quit")
          [] key = "esc" -> Stay([menu EXCEPT !.state = "MenuStateMain"])
          [] key \in {"left", "h"} ->
               Stay(IF menu.historyPage > 1 THEN [menu EXCEPT !.historyPage = @ - 1] ELSE menu)
          [] key \in {"right", "l"} ->
               Stay(IF page.hasNext /\ menu.historyPage < page.totalPages
                    THEN [menu EXCEPT !.historyPage = @ + 1] ELSE menu)
          [] key \in {Digit[i] : i \in 1..9} ->
               LET num == CHOOSE i \in 1..9 : Digit[i] = key
               IN  IF num > 0 /\ num <= Len(page.entries)
                   THEN OpenReader(menu, page.entries[num].FictionID,
                                   page.entries[num].CurrentChapter)
                   ELSE Stay(menu)
          [] OTHER -> Stay(menu)

\* m.handleNewBookInput(msg)
handleNewBookInput(menu, key) ==
    CASE key = "q" -> Leave(menu, "quit")
      [] key = "esc" -> Stay([menu EXCEPT !.state = "MenuStateMain", !.fictionInput.value = ""])
      [] key = "enter" /\ menu.fictionInput.value # "" ->
           Stay([menu EXCEPT !.state = "MenuStateNewChapter",
                             !.chapterInput.focus = TRUE,
                             !.fictionInput.focus = FALSE])
      [] OTHER -> Stay([menu EXCEPT !.fictionInput = InputUpdate(@, key)])

\* m.handleNewChapterInput(msg)
handleNewChapterInput(menu, key) ==
    CASE key = "q" -> Leave(menu, "quit")
      [] key = "esc" -> Stay([menu EXCEPT !.state = "MenuStateNewBook",
                                          !.chapterInput = [value |-> "", focus |-> FALSE],
                                          !.fictionInput.focus = TRUE])
      [] key = "enter" ->
           LET chapterStr == menu.chapterInput.value
               chapterNum == IF chapterStr # "" /\ Atoi(chapterStr).ok /\ Atoi(chapterStr).value > 0
                             THEN Atoi(chapterStr).value ELSE 1
           IN  OpenReader(menu, menu.fictionInput.value, chapterNum - 1)
      [] OTHER -> Stay([menu EXCEPT !.chapterInput = InputUpdate(@, key)])

\* m.Update(msg) for a key
MenuUpdate(menu, c, key) ==
    CASE menu.state = "MenuStateMain" -> handleMainMenu(menu, c, key)
      [] menu.state = "MenuStateHistory" -> handleHistoryMenu(menu, c, key)
      [] menu.state = "MenuStateNewBook" -> handleNewBookInput(menu, key)
      [] menu.state = "MenuStateNewChapter" -> handleNewChapterInput(menu, key)

InitMenu ==
    /\ pc = "menu"
    /\ m = NewMenuModel
    /\ \E n \in 0..MaxEntries : cfg = [ReadingHistory |-> MenuHistory(n), LastFiction |-> ""]
    /\ cmds = EmptyBag
    /\ env = [cap |-> MaxOutstanding, failures |-> 0, reloads |-> 0]
    /\ ev = Ev("NewMenuModel", "", 0, "")

\* A key in the menu.  The event holds the key and the menu's state before it.
MenuKey ==
    /\ pc = "menu"
    /\ \E key \in MenuKeys :
         LET res == MenuUpdate(m, cfg, key)
         IN  /\ pc' = IF res.to = "reader" THEN "running" ELSE res.to
             /\ m' = IF res.to = "reader"
                     THEN restoreReadingPosition(
                              [NewReaderModel(res.fictionID, <<30, 8>>) EXCEPT
                                  !.startChapter = res.startChapter], cfg)
                     ELSE res.menu
             /\ cmds' = IF res.to = "reader" THEN SetToBag({LoadFictionCmd("Init")}) ELSE cmds
             /\ ev' = Ev("menu key", key, 0, m.state)
    /\ UNCHANGED <<cfg, env>>

NextMenu == MenuKey

SpecMenu == InitMenu /\ [][NextMenu]_vars

\* C29: in the main menu c opens the reader on the first entry of the history, when
\* there is one; h shows the history at page 1; n asks for a new book; b opens the
\* browse model; s opens the search; q quits.
C29_MainMenuKeys ==
    [][ (ev'.kind = "menu key" /\ ev'.origin = "MenuStateMain") =>
          CASE ev'.key = "c" ->
                 IF Len(cfg.ReadingHistory) > 0
                 THEN /\ pc' = "running"
                      /\ m'.fictionID = cfg.ReadingHistory[1].FictionID
                      /\ m'.startChapter = cfg.ReadingHistory[1].CurrentChapter
                      /\ BagIn(LoadFictionCmd("Init"), cmds')
                 ELSE pc' = "menu" /\ m' = m
            [] ev'.key = "h" -> pc' = "menu" /\ m'.state = "MenuStateHistory" /\ m'.historyPage = 1
            [] ev'.key = "n" -> pc' = "menu" /\ m'.state = "MenuStateNewBook"
            [] ev'.key = "b" -> pc' = "browse"
            [] ev'.key = "s" -> pc' = "search"
            [] ev'.key = "q" -> pc' = "quit"
            [] OTHER -> TRUE ]_vars


(***************************************************************************)
(* config.go: the bookmarks.  cfg holds the list; the calls are those a   *)
(* caller of the package can make, in any order.                          *)
(***************************************************************************)

\* The bookmarks kept, at most, and the last chapter bookmarked.
MaxBookmarks == 3
MaxBookmarkChapter == 1

\* The positions bookmarked in a chapter.
Positions == {0, 1}

\* The bookmarks a caller passes (titles and CreatedAt, which no call reads, left out).
Bookmarks ==
    [FictionID : {"1", "2"}, ChapterIndex : 0..MaxBookmarkChapter, Position : Positions]

BookmarkKey(bookmark) == <<bookmark.FictionID, bookmark.ChapterIndex>>

\* The positions of the bookmarks of a key.
BookmarksOf(bookmarks, fictionID, chapterIndex) ==
    {i \in 1..Len(bookmarks) : BookmarkKey(bookmarks[i]) = <<fictionID, chapterIndex>>}

\* AddBookmark that appends whatever the list holds.
AddBookmarkAppend(bookmarks, bookmark) == Append(bookmarks, bookmark)

\* c.AddBookmark(bookmark): the list afterwards
AddBookmark(bookmarks, bookmark) ==
    LET found == BookmarksOf(bookmarks, bookmark.FictionID, bookmark.ChapterIndex)
    IN  IF found # {}
        THEN [bookmarks EXCEPT ![CHOOSE i \in found : \A j \in found : i <= j] = bookmark]
        ELSE Append(bookmarks, bookmark)

\* c.RemoveBookmark(fictionID, chapterIndex): the list afterwards
RemoveBookmark(bookmarks, fictionID, chapterIndex) ==
    LET found == BookmarksOf(bookmarks, fictionID, chapterIndex)
    IN  IF found # {}
        THEN LET i == CHOOSE k \in found : \A j \in found : k <= j
             IN  SubSeq(bookmarks, 1, i - 1) \o SubSeq(bookmarks, i + 1, Len(bookmarks))
        ELSE bookmarks

DistinctKeys(bookmarks) ==
    \A i, j \in 1..Len(bookmarks) :
        BookmarkKey(bookmarks[i]) = BookmarkKey(bookmarks[j]) => i = j

InitBookmarks ==
    /\ pc = "config"
    /\ \E bookmarks \in SeqsOf(Bookmarks, MaxBookmarks - 1) :
         /\ DistinctKeys(bookmarks)
         /\ cfg = [ReadingHistory |-> <<>>, LastFiction |-> "", Bookmarks |-> bookmarks]
    /\ m = Nil
    /\ cmds = EmptyBag
    /\ env = [cap |-> 0, failures |-> 0, reloads |-> 0]
    /\ ev = [kind |-> "config.Load", bookmark |-> Nil]

CallAddBookmark ==
    /\ Len(cfg.Bookmarks) < MaxBookmarks + 1
    /\ \E bookmark \in Bookmarks :
         /\ cfg' = [cfg EXCEPT !.Bookmarks = AddBookmark(@, bookmark)]
         /\ ev' = [kind |-> "AddBookmark", bookmark |-> bookmark]
    /\ UNCHANGED <<m, pc, cmds, env>>

CallRemoveBookmark ==
    /\ \E bookmark \in Bookmarks :
         /\ cfg' = [cfg EXCEPT !.Bookmarks =
                                   RemoveBookmark(@, bookmark.FictionID, bookmark.ChapterIndex)]
         /\ ev' = [kind |-> "RemoveBookmark", bookmark |-> [bookmark EXCEPT !.Position = 0]]
    /\ UNCHANGED <<m, pc, cmds, env>>

NextBookmarks == CallAddBookmark \/ CallRemoveBookmark

SpecBookmarks == InitBookmarks /\ [][NextBookmarks]_vars

\* C30: whatever AddBookmark and RemoveBookmark calls are made on a list whose keys
\* (FictionID, ChapterIndex) are distinct, the keys stay distinct; AddBookmark puts
\* the bookmark in the place of the record of its key, or at the end when there is
\* none; RemoveBookmark takes out the record of its key and leaves the others as they
\* are and in their order.
C30_BookmarksKeyed ==
    [][ LET before == cfg.Bookmarks
            after  == cfg'.Bookmarks
            key    == BookmarkKey(ev'.bookmark)
        IN  /\ DistinctKeys(before) => DistinctKeys(after)
            /\ ev'.kind = "AddBookmark" =>
                 IF \E i \in 1..Len(before) : BookmarkKey(before[i]) = key
                 THEN /\ Len(after) = Len(before)
                      /\ \A i \in 1..Len(before) :
                            after[i] = IF BookmarkKey(before[i]) = key
                                       THEN ev'.bookmark ELSE before[i]
                 ELSE after = Append(before, ev'.bookmark)
            /\ ev'.kind = "RemoveBookmark" =>
                 after = SelectSeq(before, LAMBDA b : BookmarkKey(b) # key) ]_vars

\* A bookmark has been put in the place of the first of three records, at another
\* position in the chapter.
C30_Witness ==
    /\ ev.kind = "AddBookmark"
    /\ Len(cfg.Bookmarks) = 3
    /\ DistinctKeys(cfg.Bookmarks)
    /\ cfg.Bookmarks[1] = ev.bookmark
    /\ ev.bookmark.Position = 1

(***************************************************************************)
(* Continuous reading.  The reader shows page 0 of chapter 0; the site     *)
(* answers every fetch; a page key is pressed only when no load is out.   *)
(* The user pages forward to the end, turns, and pages back (env.dir).    *)
(***************************************************************************)

\* Histories the configuration holds when the reading starts.
StartHistories == {<<>>, <<HistoryEntry("2", 0, F64Zero)>>, <<HistoryEntry("2", 1, F64Div(1, 2))>>}

InitContinuous ==
    /\ pc = "running"
    /\ \E size \in Sizes : m = ShowingAt(size, 0)
    /\ \E h \in StartHistories :
         cfg = [ReadingHistory |-> h, LastFiction |-> IF h = <<>> THEN "" ELSE "2"]
    /\ cmds = EmptyBag
    /\ env = [cap |-> 1, failures |-> 0, reloads |-> 0, dir |-> "forward"]
    /\ ev = Ev("", "", 0, "")

\* AdvancePage: a next-page key, the previous load completed.
AdvancePage == env.dir = "forward" /\ cmds = EmptyBag /\ KeyNextPage

\* RetreatPage: a previous-page key, the previous load completed.
RetreatPage == env.dir = "backward" /\ cmds = EmptyBag /\ KeyPrevPage

\* At the end of the final chapter the user starts paging back.
TurnBack ==
    /\ env.dir = "forward"
    /\ cmds = EmptyBag
    /\ AtLastPageOfFinalChapter
    /\ env' = [env EXCEPT !.dir = "backward"]
    /\ ev' = Ev("turn", "", 0, "")
    /\ UNCHANGED <<m, cfg, pc, cmds>>

\* The steps the assumptions of continuous reading promise: the user keeps paging and
\* turns at the end, bubbletea runs every command and hands every message to Update.
Paging ==
    \/ AdvancePage
    \/ RetreatPage
    \/ TurnBack
    \/ RunCmd
    \/ ChapterLoaded

NextContinuous ==
    \/ Paging
    \/ KeyTOC

SpecContinuous == InitContinuous /\ [][NextContinuous]_vars /\ WF_vars(Paging) /\ WF_vars(TurnBack)

\* The pages of chapter index i on the reader's terminal.
PagesOf(mm, i) ==
    updateContent([mm EXCEPT !.currentChapter = ServerChapter(mm.fiction.Chapters[i + 1].ID)]).totalPages

\* The index of the chapter whose lines the reader shows.
ShownIndex(mm) ==
    CHOOSE i \in 0..(NumChapters(mm) - 1) :
        mm.currentChapter = ServerChapter(mm.fiction.Chapters[i + 1].ID)

RECURSIVE PagesBefore(_, _)
PagesBefore(mm, i) == IF i = 0 THEN 0 ELSE PagesBefore(mm, i - 1) + PagesOf(mm, i - 1)

\* The place of the (chapter, page) pair shown among all the pairs, in reading order.
Rank(mm) == PagesBefore(mm, ShownIndex(mm)) + mm.currentPage

\* C31: from page 0 of chapter 0, with every fetch answered and page keys pressed only
\* when no load is out, every next-page key either moves to the next (chapter, page)
\* pair in reading order (at once, or when the load it issues completes, on page 0 of
\* the next chapter) or rests on the last page of the final chapter, which the reader
\* reaches; every previous-page key moves to the pair before in the same way or rests
\* on page 0 of chapter 0, which the reader reaches after it turned at the end.
C31_ContinuousReading ==
    /\ [][ /\ m'.totalPages = PagesOf(m', ShownIndex(m'))
           /\ m'.currentPage \in 0..(m'.totalPages - 1)
           /\ cmds' = EmptyBag => (ShownIndex(m') = m'.chapterIndex /\ ~m'.loading)
           /\ (ev'.kind = "key" /\ ev'.key = "next page") =>
                 IF cmds' # EmptyBag
                 THEN /\ Rank(m') = Rank(m) /\ m.currentPage = m.totalPages - 1
                      /\ cmds' = SetToBag({LoadChapterCmd(ShownIndex(m) + 1, "next page")})
                 ELSE \/ Rank(m') = Rank(m) + 1
                      \/ m' = m /\ Rank(m) = PagesBefore(m, NumChapters(m)) - 1
           /\ (ev'.kind = "chapterLoadedMsg" /\ ev'.origin = "next page") =>
                 /\ Rank(m') = Rank(m) + 1
                 /\ m'.currentPage = 0 /\ ShownIndex(m') = ShownIndex(m) + 1
           /\ (ev'.kind = "key" /\ ev'.key = "prev page") =>
                 IF cmds' # EmptyBag
                 THEN /\ Rank(m') = Rank(m) /\ m.currentPage = 0
                      /\ cmds' = SetToBag({LoadChapterCmd(ShownIndex(m) - 1, "prev page")})
                 ELSE \/ Rank(m') = Rank(m) - 1
                      \/ m' = m /\ Rank(m) = 0
           /\ (ev'.kind = "chapterLoadedMsg" /\ ev'.origin = "prev page") =>
                 /\ Rank(m') = Rank(m) - 1
                 /\ m'.currentPage = m'.totalPages - 1 /\ ShownIndex(m') = ShownIndex(m) - 1 ]_vars
    /\ <>(env.dir = "forward" /\ cmds = EmptyBag /\ AtLastPageOfFinalChapter)
    /\ <>[](env.dir = "backward" /\ cmds = EmptyBag /\ AtFirstPageOfFirstChapter)

\* The reader paged forward through every chapter, turned, and paged back to page 0 of
\* chapter 0, where a previous-page key left it.
C31_Witness ==
    /\ env.dir = "backward"
    /\ ev.kind = "key" /\ ev.key = "prev page"
    /\ AtFirstPageOfFirstChapter
    /\ NumChapters(m) = MaxChapters
    /\ cmds = EmptyBag
    /\ Len(cfg.ReadingHistory) > 0 /\ cfg.ReadingHistory[1].CurrentChapter = 0

(***************************************************************************)
(* Properties of the reader's history and errors (Spec).                   *)
(***************************************************************************)

\* The chapter of the history entry restoreReadingPosition reads, -1 when there is none.
SavedChapter ==
    IF Matches(cfg.ReadingHistory, m.fictionID) = {} THEN 0 - 1
    ELSE cfg.ReadingHistory[FirstMatch(cfg.ReadingHistory, m.fictionID)].CurrentChapter

\* The chapter-loaded handler takes the branch that restores the saved fraction.
RestoreApplies == ~m.goToLastPage /\ F64Positive(m.savedChapterProgress)

\* C32: a chapter load is landed by the saved fraction only when its index is the
\* CurrentChapter of the history entry the fraction came from, and the load of a
\* chapter of any other index lands on the first page or on the last.
C32_RestoreOnSavedChapterOnly ==
    [][ ev'.kind = "chapterLoadedMsg" =>
          /\ RestoreApplies => ev'.index = SavedChapter
          /\ ev'.index # SavedChapter => m'.currentPage \in {0, m'.totalPages - 1} ]_vars

\* C33: right after a chapter has loaded, and right after q (ctrl+c) or m is pressed
\* with a fiction loaded, the first entry of the history has the reader's FictionID and
\* its chapterIndex for CurrentChapter, and LastFiction is the reader's FictionID; q and
\* m pressed before any fiction has loaded leave the configuration as it was.
C33_ProgressPersisted ==
    [][ (ev'.kind = "chapterLoadedMsg" \/ (ev'.kind = "key" /\ ev'.key \in {"q", "m"})) =>
          IF m'.fiction # Nil
          THEN /\ cfg'.ReadingHistory # <<>>
               /\ cfg'.ReadingHistory[1].FictionID = m'.fictionID
               /\ cfg'.ReadingHistory[1].CurrentChapter = m'.chapterIndex
               /\ cfg'.LastFiction = m'.fictionID
          ELSE cfg' = cfg ]_vars

\* q was pressed while the chapter a key asked for was loading: the entry of the
\* fiction, the second of the history when the session began, is the first and holds
\* the chapter asked for.
C33_Witness ==
    /\ pc = "quit"
    /\ m.fiction # Nil /\ m.loading
    /\ Len(cfg.ReadingHistory) = 2
    /\ cfg.ReadingHistory[1].FictionID = m.fictionID
    /\ cfg.ReadingHistory[1].CurrentChapter = m.chapterIndex
    /\ m.currentChapter # Nil
    /\ m.chapterIndex < NumChapters(m)
    /\ m.currentChapter # ServerChapter(m.fiction.Chapters[m.chapterIndex + 1].ID)

\* m.View(): the screen drawn.
View(mm) ==
    IF ~mm.ready THEN "initializing"
    ELSE IF mm.loading THEN "loading"
    ELSE IF mm.err # Nil THEN "error"
    ELSE "content"

\* A step of the running reader that is not the r key.
NotReload == pc' = "running" /\ ~(ev'.kind = "key" /\ ev'.key = "r")

\* C34: once an error is recorded, err stays set and the view is the error screen
\* until r is pressed, whatever else happens, a chapter that loads included.
C34_ErrorScreenUntilReload ==
    [][ (m.err # Nil /\ NotReload) => (m'.err # Nil /\ View(m') = "error") ]_vars

\* C34, amended: once an error is recorded, err stays set until r is pressed and the
\* view never shows the chapter: it is the error screen, or the loading screen from a
\* key that issues a load until the load's message is handled.
C34_NoContentUntilReload ==
    [][ (m.err # Nil /\ NotReload) =>
          /\ m'.err # Nil
          /\ View(m') \in {"error", "loading"}
          /\ (View(m) = "error" /\ View(m') = "loading") =>
                (ev'.kind = "key" /\ cmds' # cmds)
          /\ ev'.kind \in {"chapterLoadedMsg", "errorMsg", "fictionLoadedMsg"} => View(m') = "error" ]_vars

\* With an error recorded a key asked for another chapter, the chapter loaded, and the
\* view is the error screen still.
C34_Witness ==
    /\ pc = "running"
    /\ ev.kind = "chapterLoadedMsg" /\ ev.origin \in {"n", "p", "next page", "prev page", "digit"}
    /\ m.err # Nil
    /\ m.currentChapter = ServerChapter(m.fiction.Chapters[ev.index + 1].ID)
    /\ View(m) = "error"

(***************************************************************************)
(* The reader with every fetch completing: bubbletea runs the closure of  *)
(* every command it is handed and sends its message to Update, and the    *)
(* api.Client's http.Client has a timeout of 30 seconds (part_000:24).    *)
(* Keys are handled while loads are out; one terminal, no history.        *)
(***************************************************************************)

InitFair ==
    /\ pc = "new"
    /\ \E fictionID \in FictionIDs : m = NewReaderModel(fictionID, <<30, 8>>)
    /\ cfg = [ReadingHistory |-> <<>>, LastFiction |-> ""]
    /\ cmds = EmptyBag
    /\ env = [cap |-> MaxTypedAhead, failures |-> MaxFailures, reloads |-> MaxReloads]
    /\ ev = Ev("NewReaderModel", "", 0, "")

NextFair ==
    \/ ReaderInit
    \/ KeyQuit
    \/ KeyNextChapter
    \/ KeyPrevChapter
    \/ KeyReload
    \/ RunCmd
    \/ FictionLoaded
    \/ ChapterLoaded
    \/ Error

SpecFair ==
    /\ InitFair /\ [][NextFair]_vars
    /\ WF_vars(ReaderInit)
    /\ WF_vars(RunCmd) /\ WF_vars(FictionLoaded) /\ WF_vars(ChapterLoaded) /\ WF_vars(Error)

\* C35: while the reader runs, loading is true only with a command or a message of a
\* fetch outstanding, and whenever loading is true it becomes false (or the reader is
\* left by q or m), every fetch delivering its message.
C35_LoadingEnds ==
    /\ []((pc = "running" /\ m.loading) => cmds # EmptyBag)
    /\ ((pc = "running" /\ m.loading) ~> (~m.loading \/ pc # "running"))

\* A chapter's fetch was issued by a key, which set loading, and failed: the error's
\* message ended the loading.
C35_Witness ==
    /\ pc = "running"
    /\ ev.kind = "errorMsg" /\ ev.origin \in {"n", "p", "next page", "prev page", "digit"}
    /\ ~m.loading
    /\ cmds = EmptyBag

\* C36: whenever the reader runs with no fetch in flight, goToLastPage is false; the
\* flag is true only while a chapter load that p, or a previous-page key on page 0,
\* issued is outstanding.
C36_LastPageFlagOnlyWhileLoading ==
    (pc = "running" /\ m.goToLastPage) =>
        \E c \in Outstanding : c.origin \in {"p", "prev page"}

\* The fiction is loaded and lists no chapter.
NoChapters == m.fiction # Nil /\ NumChapters(m) = 0

\* C37: a fiction that loads with an empty chapter list records the error "no chapters
\* found", ends the loading and issues no fetch of a chapter; with that fiction loaded,
\* every chapter key, page key and TOC digit leaves chapterIndex and currentPage at 0
\* and issues no fetch.
C37_NoChaptersNoFetch ==
    [][ /\ (ev'.kind = "fictionLoadedMsg" /\ NumChapters(m') = 0) =>
             /\ m'.err = [error |-> "no chapters found"]
             /\ ~m'.loading
             /\ \A c \in BagToSet(cmds') : c \in BagToSet(cmds)
        /\ ( /\ NoChapters /\ m.chapterIndex = 0 /\ m.currentPage = 0
             /\ ev'.kind = "key"
             /\ ev'.key \in {"n", "p", "next page", "prev page", "g", "G", "digit"} ) =>
             /\ m'.chapterIndex = 0
             /\ m'.currentPage = 0
             /\ cmds' = cmds ]_vars

\* The page of the history the history menu shows (viewHistoryMenu numbers its entries
\* from 1).
ShownPage == GetReadingHistoryPage(cfg, m.historyPage, m.historyPageSize)

\* The keys of the history menu that a number is pressed with.
NumberKeys == {Digit[i] : i \in 1..9}

\* C38: in the history menu of a history that is not empty, the page number is within
\* [1, totalPages]; the page shown holds the entries of that page, so every entry is on
\* a page; right goes to the next page while there is one and left to the one before;
\* a number key opens the reader on the entry shown with that number, with its saved
\* chapter; and every entry shown has a number key that opens it.
C38_EveryEntryOpens ==
    (pc = "menu" /\ m.state = "MenuStateHistory" /\ cfg.ReadingHistory # <<>>) =>
        LET total == Len(cfg.ReadingHistory)
            first == (m.historyPage - 1) * m.historyPageSize + 1
            last  == Min(m.historyPage * m.historyPageSize, total)
        IN  /\ m.historyPage \in 1..ShownPage.totalPages
            /\ ShownPage.entries = SubSeq(cfg.ReadingHistory, first, last)
            /\ m.historyPage < ShownPage.totalPages =>
                  MenuUpdate(m, cfg, "right") = Stay([m EXCEPT !.historyPage = @ + 1])
            /\ m.historyPage > 1 =>
                  MenuUpdate(m, cfg, "left") = Stay([m EXCEPT !.historyPage = @ - 1])
            /\ \A num \in 1..9 :
                  MenuUpdate(m, cfg, Digit[num]) =
                     IF num <= Len(ShownPage.entries)
                     THEN OpenReader(m, ShownPage.entries[num].FictionID,
                                     ShownPage.entries[num].CurrentChapter)
                     ELSE Stay(m)
            /\ \A i \in 1..Len(ShownPage.entries) :
                  \E key \in NumberKeys :
                     MenuUpdate(m, cfg, key) =
                        OpenReader(m, ShownPage.entries[i].FictionID,
                                   ShownPage.entries[i].CurrentChapter)

(***************************************************************************)
(* toc.go: the TOCModel.  The fiction is the number of its chapters; m is *)
(* the model, ev the call made last and what Update returned.             *)
(***************************************************************************)

\* The longest chapter list the table of contents is made over.
MaxTocChapters == 13

\* Heights NewTOCModel is given: one below the floor of the viewport, one above it.
TocHeights == {8, 15}

\* The keys Update is handed.
TocKeys == {"up", "k", "down", "j", "g", "home", "G", "end", "enter", "t", "escape", "x"}
              \cup DecimalDigits

\* NewTOCModel(fiction, currentIndex, viewHeight)
NewTOCModel(chapters, currentIndex, viewHeight) ==
    [chapters      |-> chapters,
     currentIndex  |-> currentIndex,
     selectedIndex |-> currentIndex,
     scrollOffset  |-> 0,
     viewHeight    |-> Max(viewHeight - 4, 10),
     visible       |-> FALSE]

\* m.centerOnCurrentChapter()
centerOnCurrentChapter(toc) ==
    IF toc.chapters = 0 THEN toc
    ELSE LET idealOffset == toc.currentIndex - GoDiv(toc.viewHeight, 2)
         IN  [toc EXCEPT !.scrollOffset = Max(0, Min(idealOffset, toc.chapters - toc.viewHeight))]

\* m.SetVisible(visible)
TocSetVisible(toc, visible) ==
    LET shown == [toc EXCEPT !.visible = visible]
    IN  IF visible THEN centerOnCurrentChapter(shown) ELSE shown

\* m.SetCurrentChapter(index)
TocSetCurrentChapter(toc, index) ==
    LET set == [toc EXCEPT !.currentIndex = index, !.selectedIndex = index]
    IN  IF toc.visible THEN centerOnCurrentChapter(set) ELSE set

\* m.ensureVisible()
ensureVisible(toc) ==
    LET scrollOffset ==
            IF toc.selectedIndex < toc.scrollOffset THEN toc.selectedIndex
            ELSE IF toc.selectedIndex >= toc.scrollOffset + toc.viewHeight
            THEN toc.selectedIndex - toc.viewHeight + 1
            ELSE toc.scrollOffset
    IN  [toc EXCEPT !.scrollOffset = Max(0, Min(scrollOffset, toc.chapters - toc.viewHeight))]

\* What Update returns, and the model afterwards.
TocResult(toc, index, ok) == [toc |-> toc, index |-> index, ok |-> ok]

\* m.Update(msg) for a key
TocUpdate(toc, key) ==
    IF ~toc.visible THEN TocResult(toc, 0 - 1, FALSE)
    ELSE CASE key \in {"up", "k"} ->
                TocResult(IF toc.selectedIndex > 0
                          THEN ensureVisible([toc EXCEPT !.selectedIndex = @ - 1]) ELSE toc,
                          0 - 1, FALSE)
           [] key \in {"down", "j"} ->
                TocResult(IF toc.selectedIndex < toc.chapters - 1
                          THEN ensureVisible([toc EXCEPT !.selectedIndex = @ + 1]) ELSE toc,
                          0 - 1, FALSE)
           [] key \in {"g", "home"} ->
                TocResult([toc EXCEPT !.selectedIndex = 0, !.scrollOffset = 0], 0 - 1, FALSE)
           [] key \in {"G", "end"} ->
                TocResult([toc EXCEPT !.selectedIndex = toc.chapters - 1,
                                      !.scrollOffset = Max(0, toc.chapters - toc.viewHeight)],
                          0 - 1, FALSE)
           [] key = "enter" -> TocResult(toc, toc.selectedIndex, TRUE)
           [] key \in DecimalDigits ->
                LET chapterNum == DecimalValue(key)
                IN  IF chapterNum >= 1 /\ chapterNum <= toc.chapters
                    THEN TocResult(toc, chapterNum - 1, TRUE)
                    ELSE TocResult(toc, 0 - 1, FALSE)
           [] key \in {"t", "escape"} -> TocResult(toc, 0 - 1, TRUE)
           [] OTHER -> TocResult(toc, 0 - 1, FALSE)

TocEv(kind, key, index, ok) == [kind |-> kind, key |-> key, index |-> index, ok |-> ok]

InitToc ==
    /\ pc = "toc"
    /\ \E chapters \in 1..MaxTocChapters, viewHeight \in TocHeights :
         \E currentIndex \in 0..(chapters - 1) :
            m = NewTOCModel(chapters, currentIndex, viewHeight)
    /\ cfg = Nil
    /\ cmds = EmptyBag
    /\ env = [cap |-> 0, failures |-> 0, reloads |-> 0]
    /\ ev = TocEv("NewTOCModel", "", 0 - 1, FALSE)

CallSetVisible ==
    /\ \E visible \in BOOLEAN :
         /\ m' = TocSetVisible(m, visible)
         /\ ev' = TocEv(IF visible THEN "show" ELSE "hide", "", 0 - 1, FALSE)
    /\ UNCHANGED <<cfg, pc, cmds, env>>

CallSetCurrentChapter ==
    /\ \E index \in 0..(m.chapters - 1) :
         /\ m' = TocSetCurrentChapter(m, index)
         /\ ev' = TocEv("SetCurrentChapter", "", index, FALSE)
    /\ UNCHANGED <<cfg, pc, cmds, env>>

CallTocUpdate ==
    /\ \E key \in TocKeys :
         LET res == TocUpdate(m, key)
         IN  /\ m' = res.toc
             /\ ev' = TocEv("Update", key, res.index, res.ok)
    /\ UNCHANGED <<cfg, pc, cmds, env>>

NextToc ==
    \/ CallSetVisible
    \/ CallSetCurrentChapter
    \/ CallTocUpdate

SpecToc == InitToc /\ [][NextToc]_vars

\* C39: while the table of contents is visible, 0 <= selectedIndex < n,
\* 0 <= scrollOffset <= max(0, n - viewHeight) and the selection is inside the viewport,
\* scrollOffset <= selectedIndex < scrollOffset + viewHeight; Update reports a jump
\* (index, true) only with an index in [0, n-1], and (-1, true) only for the keys that
\* close the table of contents.
C39_SelectionInViewport ==
    /\ m.visible =>
         /\ m.selectedIndex \in 0..(m.chapters - 1)
         /\ m.scrollOffset \in 0..Max(0, m.chapters - m.viewHeight)
         /\ m.scrollOffset <= m.selectedIndex
         /\ m.selectedIndex < m.scrollOffset + m.viewHeight
    /\ (ev.kind = "Update" /\ ev.ok) =>
         \/ ev.index \in 0..(m.chapters - 1)
         \/ ev.index = 0 - 1 /\ ev.key \in {"t", "escape"}

=============================================================================
